---- MODULE Spec2Model ----
(***************************************************************************)
(* A model of the skynet core: per-service mailboxes (skynet_mq.c), the    *)
(* global run queue, service reference counting and the worker dispatch    *)
(* loop (skynet_server.c), the handle registry (skynet_handle.c) and the   *)
(* timing wheel (skynet_timer.c).                                          *)
(*                                                                         *)
(* Threads interleave at the granularity of the code's critical sections:  *)
(* one step is one spinlock/rwlock protected section or one atomic         *)
(* operation.                                                              *)
(***************************************************************************)
EXTENDS Integers, Sequences, FiniteSets, TLC

\* ------------------------------------------------------------------ bounds
\* number of services that can be created
NCtx == 2
\* number of OS threads that interleave
NThreads == 2
\* number of user messages handed to skynet_send
MaxMsg == 2
\* initial mailbox capacity; the source uses 64 (skynet_mq.c:17), scaled
\* down so that wrap-around and expand_queue are reached
DEFAULT_QUEUE_SIZE == 2
\* number of messages pushed to the mailbox studied in isolation
MaxPush == 6
\* the timing wheel, scaled down: the source uses TIME_NEAR_SHIFT 8 and
\* TIME_LEVEL_SHIFT 6 (skynet_timer.c:25,27) on a uint32_t tick, that is
\* TIME_NEAR_SHIFT + 4 * TIME_LEVEL_SHIFT bits; the scaled wheel keeps one
\* near wheel and four levels and wraps after TIME_WRAP ticks
TIME_NEAR_SHIFT == 2
TIME_LEVEL_SHIFT == 1
\* number of timers registered, largest delay, number of ticks observed
NTimers == 2
MaxDelay == 10
MaxTicks == 68
\* sizeof(size_t) in bytes, scaled down from 8 (LP64) so that sizes fit the
\* checker's integers
SizeofSizeT == 2
\* the handle registry, scaled down: the source has 24 handle bits
\* (HANDLE_MASK 0xffffff, skynet_module.h:76) and starts with 4 slots
\* (DEFAULT_SLOT_SIZE, 2 bits); the node id is a configuration value
HandleBits == 2
SlotBits == 1
Harbor == 1
\* context objects, skynet_handle_register calls, names
NObj == 3
MaxReg == 4
NNames == 3
\* socket ids handed out for the one socket slot, write buffers per socket,
\* SOCKET_OPEN events counted per id
NIds == 1
MaxBuf == 2
MaxOpen == 2
\* mailboxes that can still be waiting in the global queue at shutdown
MaxWork == 2
\* mailboxes served by the workers and the most messages one can hold
NBox == 3
MaxLen == 2
\* services watched by the monitor; sm->version counts modulo VersionWrap
NSvc == 2
VersionWrap == 4
\* reserve_id: MAX_SOCKET is 2^MAX_SOCKET_P slots, alloc_id an int of IdBits bits
MAX_SOCKET_P == 1
IdBits == 3
\* bits of the int session counter
SessionBits == 7
\* overflows of the session counter that are followed
MaxOver == 2
\* threads and mailboxes whose spinlocks are followed
NLockers == 2
NLockBoxes == 2
\* mailboxes that receive messages while the workers sleep and wake
NWakeBox == 2
\* the write buffers of one socket: threads that send, calls of
\* socket_server_send followed, bytes of the largest buffer
NSenders == 2
MaxCalls == 3
MaxSz == 2

\* ------------------------------------------------------- program constants
MQ_IN_GLOBAL == 1
PTYPE_TEXT == 0
PTYPE_ERROR == 7
PTYPE_TAG_DONTCOPY == 65536
PTYPE_TAG_ALLOCSESSION == 131072

Ctxs == 1..NCtx
Threads == 1..NThreads
\* the messages handed to skynet_send by services, and all messages: a
\* PTYPE_ERROR message may be synthesized for each user message
UserIds == 1..MaxMsg
MsgIds == 1..(2 * MaxMsg)

\* the service that sends user message id
SrcOf(id) == ((id - 1) % NCtx) + 1

\* the PTYPE_ERROR message that drop_message synthesizes for message id
ErrId(id) == id + MaxMsg

NoMsg == [id |-> 0, source |-> 0, session |-> 0, type |-> 0]

\* struct message_queue before skynet_mq_create: no queue
NoQueue == [cap |-> 0, head |-> 0, tail |-> 0, queue |-> << >>,
            in_global |-> 0, release |-> 0, live |-> FALSE]

\* worker weight table of skynet_start.c: -1 for the first workers, then 0, 1, ...
Weight(t) == IF t = 1 THEN -1 ELSE t - 2

RECURSIVE Pow2(_)
Pow2(k) == IF k <= 0 THEN 1 ELSE 2 * Pow2(k - 1)

\* ---------------------------------------------------------------- mailbox
\* mutant: the mailbox is created with in_global clear
skynet_mq_create_NotInGlobal ==
    [cap |-> DEFAULT_QUEUE_SIZE, head |-> 0, tail |-> 0,
     queue |-> [i \in 1..DEFAULT_QUEUE_SIZE |-> NoMsg],
     in_global |-> 0, release |-> 0, live |-> TRUE]

\* skynet_mq_create
skynet_mq_create == [cap |-> DEFAULT_QUEUE_SIZE, head |-> 0, tail |-> 0,
                     queue |-> [i \in 1..DEFAULT_QUEUE_SIZE |-> NoMsg],
                     in_global |-> MQ_IN_GLOBAL, release |-> 0, live |-> TRUE]

\* skynet_mq_length: the number of pending messages
skynet_mq_length(q) == IF q.head <= q.tail THEN q.tail - q.head
                       ELSE q.tail + q.cap - q.head

\* mutant: the copy starts at slot 0 instead of head
expand_queue_NoRotate(q) ==
    [q EXCEPT !.queue = [i \in 1..(2 * q.cap) |->
                            IF i <= q.cap THEN q.queue[i] ELSE NoMsg],
              !.head = 0,
              !.tail = q.cap,
              !.cap = 2 * q.cap]

\* expand_queue: copy cap messages starting at head, double the capacity
expand_queue(q) ==
    [q EXCEPT !.queue = [i \in 1..(2 * q.cap) |->
                            IF i <= q.cap THEN q.queue[((q.head + i - 1) % q.cap) + 1]
                            ELSE NoMsg],
              !.head = 0,
              !.tail = q.cap,
              !.cap = 2 * q.cap]

\* mutant: the ring is never expanded
mq_store_NoExpand(q, msg) ==
    [q EXCEPT !.queue[q.tail + 1] = msg,
              !.tail = IF q.tail + 1 >= q.cap THEN 0 ELSE q.tail + 1]

\* the ring part of skynet_mq_push: store at tail, advance, expand when full
mq_store(q, msg) ==
    LET q1 == [q EXCEPT !.queue[q.tail + 1] = msg,
                        !.tail = IF q.tail + 1 >= q.cap THEN 0 ELSE q.tail + 1]
    IN IF q1.head = q1.tail THEN expand_queue(q1) ELSE q1

\* the ring part of skynet_mq_pop on a non-empty queue: the queue afterwards
\* (the slot read is blanked: the code leaves a stale copy nobody reads)
mq_take(q) ==
    [q EXCEPT !.queue[q.head + 1] = NoMsg,
              !.head = IF q.head + 1 >= q.cap THEN 0 ELSE q.head + 1]

\* the message skynet_mq_pop returns
mq_front(q) == q.queue[q.head + 1]

mq_empty(q) == q.head = q.tail

\* the messages of a mailbox, oldest first
RECURSIVE mq_contents(_)
mq_contents(q) == IF (~q.live) \/ mq_empty(q) THEN << >>
                  ELSE << mq_front(q) >> \o mq_contents(mq_take(q))

\* ------------------------------------------------------------ timing wheel
TIME_NEAR == Pow2(TIME_NEAR_SHIFT)
TIME_LEVEL == Pow2(TIME_LEVEL_SHIFT)
TIME_NEAR_MASK == TIME_NEAR - 1
TIME_LEVEL_MASK == TIME_LEVEL - 1
\* the number of values of the uint32_t tick T->time and node->expire
TIME_WRAP == Pow2(TIME_NEAR_SHIFT + 4 * TIME_LEVEL_SHIFT)

TimerIds == 1..NTimers

\* x | m for a mask m of the form 2^n - 1
BitOrLow(x, m) == x - (x % (m + 1)) + m

\* x & m for a mask m of the form 2^n - 1
BitAndLow(x, m) == x % (m + 1)

\* timer_create_timer: every list empty, time 0
timer_create_timer ==
    [near |-> [i \in 0..(TIME_NEAR - 1) |-> << >>],
     t |-> [l \in 0..3 |-> [i \in 0..(TIME_LEVEL - 1) |-> << >>]],
     time |-> 0]

\* the for loop of add_node: the first level i < 3 whose mask makes expire
\* and the current time agree, 3 when none does
RECURSIVE add_node_level(_, _, _, _)
add_node_level(time, current_time, i, mask) ==
    IF i >= 3 \/ BitOrLow(time, mask - 1) = BitOrLow(current_time, mask - 1)
    THEN i
    ELSE add_node_level(time, current_time, i + 1, mask * TIME_LEVEL)

\* mutant: every node is linked into the near wheel
add_node_AlwaysNear(T, node) ==
    [T EXCEPT !.near[BitAndLow(node.expire, TIME_NEAR_MASK)] = Append(@, node)]

\* add_node: link the node at the tail of the list its expire selects
add_node(T, node) ==
    LET time == node.expire
        current_time == T.time
    IN IF BitOrLow(time, TIME_NEAR_MASK) = BitOrLow(current_time, TIME_NEAR_MASK)
       THEN [T EXCEPT !.near[BitAndLow(time, TIME_NEAR_MASK)] = Append(@, node)]
       ELSE LET i == add_node_level(time, current_time, 0, TIME_NEAR * TIME_LEVEL)
                idx == BitAndLow(time \div Pow2(TIME_NEAR_SHIFT + i * TIME_LEVEL_SHIFT),
                                 TIME_LEVEL_MASK)
            IN [T EXCEPT !.t[i][idx] = Append(@, node)]

\* the while loop of move_list: add_node for each node, in list order
RECURSIVE add_nodes(_, _)
add_nodes(T, list) ==
    IF list = << >> THEN T ELSE add_nodes(add_node(T, Head(list)), Tail(list))

\* mutant: the list stays where it is
move_list_Stays(T, level, idx) == T

\* move_list: link_clear the list of t[level][idx] and add its nodes again
move_list(T, level, idx) ==
    add_nodes([T EXCEPT !.t[level][idx] = << >>], T.t[level][idx])

\* the while loop of timer_shift
RECURSIVE timer_shift_loop(_, _, _, _, _)
timer_shift_loop(T, ct, mask, time, i) ==
    IF BitAndLow(ct, mask - 1) = 0
    THEN LET idx == BitAndLow(time, TIME_LEVEL_MASK)
         IN IF idx # 0
            THEN move_list(T, i, idx)
            ELSE timer_shift_loop(T, ct, mask * TIME_LEVEL, time \div TIME_LEVEL, i + 1)
    ELSE T

\* timer_shift: ++T->time on a uint32_t, then cascade
timer_shift(T) ==
    LET ct == (T.time + 1) % TIME_WRAP
        T1 == [T EXCEPT !.time = ct]
    IN IF ct = 0
       THEN move_list(T1, 3, 0)
       ELSE timer_shift_loop(T1, ct, TIME_NEAR, ct \div TIME_NEAR, 0)

\* the slot timer_execute looks at
timer_execute_idx(T) == BitAndLow(T.time, TIME_NEAR_MASK)

\* --------------------------------------------------- message size and type
\* a & b and a | b on non-negative integers
RECURSIVE BitAnd(_, _)
BitAnd(a, b) == IF a = 0 \/ b = 0 THEN 0
                ELSE (a % 2) * (b % 2) + 2 * BitAnd(a \div 2, b \div 2)

RECURSIVE BitOr(_, _)
BitOr(a, b) == IF a = 0 THEN b
               ELSE IF b = 0 THEN a
               ELSE (IF a % 2 = 1 \/ b % 2 = 1 THEN 1 ELSE 0) + 2 * BitOr(a \div 2, b \div 2)

SIZE_MAX == Pow2(8 * SizeofSizeT) - 1

\* mutant: the mask leaves 9 bits to the type
MESSAGE_TYPE_MASK_Narrow == SIZE_MAX \div 512

\* #define MESSAGE_TYPE_MASK (SIZE_MAX >> 8)
MESSAGE_TYPE_MASK == SIZE_MAX \div 256

\* #define MESSAGE_TYPE_SHIFT ((sizeof(size_t)-1) * 8)
MESSAGE_TYPE_SHIFT == (SizeofSizeT - 1) * 8

\* the largest value of the int session counter
SESSION_MAX == Pow2(SessionBits - 1) - 1

\* an integer as an int of SessionBits bits (two's complement)
SessionWrap(x) ==
    LET m == Pow2(SessionBits)
        u == x % m
    IN IF u >= m \div 2 THEN u - m ELSE u

\* skynet_context_newsession: ++ctx->session_id, 1 on overflow (the
\* increment wrapping to the smallest int, which the test then sees)
skynet_context_newsession(sid) ==
    LET session == SessionWrap(sid + 1)
    IN IF session <= 0 THEN 1 ELSE session

\* mutant: the counter is not incremented
newsession_results_Stuck(sid) ==
    {[session_id |-> IF sid <= 0 THEN 1 ELSE sid, ret |-> IF sid <= 0 THEN 1 ELSE sid]}

\* what skynet_context_newsession leaves in ctx->session_id and returns.
\* ++ctx->session_id on the largest int overflows a signed int: the
\* increment either wraps and the test session <= 0 resets the counter to
\* 1, or the test is decided on the value before the increment (it cannot
\* be <= 0 without overflow) and the wrapped value is returned as it is
newsession_results(sid) ==
    IF sid + 1 > SESSION_MAX
    THEN {[session_id |-> 1, ret |-> 1],
          [session_id |-> SessionWrap(sid + 1), ret |-> SessionWrap(sid + 1)]}
    ELSE {[session_id |-> skynet_context_newsession(sid),
           ret |-> skynet_context_newsession(sid)]}

\* the sizes handed to skynet_send: around every power of two up to SIZE_MAX
SizeInputs ==
    {x \in UNION {{Pow2(n) - 1, Pow2(n), Pow2(n) + 1} : n \in 0..(8 * SizeofSizeT)} :
        x <= SIZE_MAX}

\* the type arguments: a message type with or without the two tags
TypeInputs ==
    {p + a + c : p \in {PTYPE_TEXT, PTYPE_ERROR, 255},
                 a \in {0, PTYPE_TAG_ALLOCSESSION},
                 c \in {0, PTYPE_TAG_DONTCOPY}}

\* ------------------------------------------------------- handle registry
HANDLE_MASK == Pow2(HandleBits) - 1
DEFAULT_SLOT_SIZE == Pow2(SlotBits)
\* s->harbor: the node id above the handle bits
HarborBits == Harbor * (HANDLE_MASK + 1)

Objs == 1..NObj
Names == 1..NNames
\* the handles a caller may pass
Handles == {HarborBits + x : x \in 1..HANDLE_MASK}

NoName == [name |-> 0, handle |-> 0]

\* skynet_handle_init
skynet_handle_init ==
    [handle_index |-> 1,
     slot_size |-> DEFAULT_SLOT_SIZE,
     slot |-> [i \in 0..(DEFAULT_SLOT_SIZE - 1) |-> 0],
     name_cap |-> 2,
     name_count |-> 0,
     name |-> [i \in 0..1 |-> NoName]]

\* the rehash loop of skynet_handle_register from slot i on: every context
\* goes to the slot its ctx->handle (read through fh) selects in the doubled
\* array; ok is cleared when assert(new_slot[hash] == NULL) fails
RECURSIVE rehash(_, _, _, _, _)
rehash(old, size, fh, i, acc) ==
    IF i >= size THEN acc
    ELSE IF old[i] = 0 THEN rehash(old, size, fh, i + 1, acc)
    ELSE LET hash == BitAnd(fh[old[i]], size * 2 - 1)
         IN IF acc.slot[hash] # 0
            THEN [acc EXCEPT !.ok = FALSE]
            ELSE rehash(old, size, fh, i + 1, [acc EXCEPT !.slot[hash] = old[i]])

\* if (handle > HANDLE_MASK) handle = 1
register_wrap(handle) == IF handle > HANDLE_MASK THEN 1 ELSE handle

\* skynet_handle_register under the write lock: probe slot_size handles from
\* handle_index; when none is free double the array and probe again.  The
\* result is the storage, the handle returned (0: none) and whether the
\* asserts held.
RECURSIVE register_probe(_, _, _, _, _)
register_probe(s, ctx, fh, handle, i) ==
    IF i < s.slot_size
    THEN LET h == register_wrap(handle)
             hash == BitAnd(h, s.slot_size - 1)
         IN IF s.slot[hash] = 0
            THEN [H |-> [s EXCEPT !.slot[hash] = ctx, !.handle_index = h + 1],
                  handle |-> BitOr(h, HarborBits), ok |-> TRUE]
            ELSE register_probe(s, ctx, fh, h + 1, i + 1)
    ELSE IF s.slot_size * 2 - 1 > HANDLE_MASK
    THEN [H |-> s, handle |-> 0, ok |-> FALSE]
    ELSE LET r == rehash(s.slot, s.slot_size, fh, 0,
                         [slot |-> [j \in 0..(s.slot_size * 2 - 1) |-> 0], ok |-> TRUE])
             s2 == [s EXCEPT !.slot = r.slot, !.slot_size = s.slot_size * 2]
         IN IF ~r.ok THEN [H |-> s, handle |-> 0, ok |-> FALSE]
            ELSE register_probe(s2, ctx, fh, s2.handle_index, 0)

skynet_handle_register(s, ctx, fh) == register_probe(s, ctx, fh, s.handle_index, 0)

\* the context skynet_handle_grab and skynet_handle_retire find for a
\* handle (0: none): the slot holds a context whose ctx->handle is handle
handle_lookup(s, fh, handle) ==
    LET c == s.slot[BitAnd(handle, s.slot_size - 1)]
    IN IF c # 0 /\ fh[c] = handle THEN c ELSE 0

\* the name loop of skynet_handle_retire: the entries of other handles, in
\* order (the entries left behind the new name_count are blanked)
RECURSIVE names_without(_, _, _, _)
names_without(s, handle, i, acc) ==
    IF i >= s.name_count THEN acc
    ELSE IF s.name[i].handle = handle THEN names_without(s, handle, i + 1, acc)
    ELSE names_without(s, handle, i + 1, Append(acc, s.name[i]))

retire_names(s, handle) ==
    LET kept == names_without(s, handle, 0, << >>)
    IN [s EXCEPT !.name = [i \in 0..(s.name_cap - 1) |->
                              IF i < Len(kept) THEN kept[i + 1] ELSE NoName],
                 !.name_count = Len(kept)]

\* the binary search of skynet_handle_findname and _insert_name: the entry
\* found (pos, handle) or the place where the search ends (begin)
RECURSIVE name_search(_, _, _, _)
name_search(s, name, begin, end) ==
    IF begin <= end
    THEN LET mid == (begin + end) \div 2
             n == s.name[mid]
         IN IF n.name = name THEN [found |-> TRUE, at |-> mid, handle |-> n.handle]
            ELSE IF n.name < name THEN name_search(s, name, mid + 1, end)
            ELSE name_search(s, name, begin, mid - 1)
    ELSE [found |-> FALSE, at |-> begin, handle |-> 0]

\* skynet_handle_findname
skynet_handle_findname(s, name) == name_search(s, name, 0, s.name_count - 1).handle

\* mutant: the new entry is written at before without moving the others
insert_name_before_Overwrite(s, name, handle, before) ==
    LET cap == IF s.name_count >= s.name_cap THEN s.name_cap * 2 ELSE s.name_cap
    IN [s EXCEPT !.name_cap = cap,
                 !.name = [i \in 0..(cap - 1) |->
                              IF i = before THEN [name |-> name, handle |-> handle]
                              ELSE IF i <= s.name_count /\ i < s.name_cap THEN s.name[i]
                              ELSE NoName],
                 !.name_count = s.name_count + 1]

\* _insert_name_before: double the array when it is full, move the entries
\* from before on up by one, write the new entry
insert_name_before(s, name, handle, before) ==
    LET cap == IF s.name_count >= s.name_cap THEN s.name_cap * 2 ELSE s.name_cap
    IN [s EXCEPT !.name_cap = cap,
                 !.name = [i \in 0..(cap - 1) |->
                              IF i < before THEN s.name[i]
                              ELSE IF i = before THEN [name |-> name, handle |-> handle]
                              ELSE IF i <= s.name_count THEN s.name[i - 1]
                              ELSE NoName],
                 !.name_count = s.name_count + 1]

\* _insert_name: NULL (the storage unchanged) when the name exists
insert_name(s, name, handle) ==
    LET r == name_search(s, name, 0, s.name_count - 1)
    IN IF r.found THEN s ELSE insert_name_before(s, name, handle, r.at)

\* ----------------------------------------------------------- socket server
Ids == 1..NIds

\* an event of the batch sp_wait returned; no flag: no event is left, or
\* e->s was set to NULL
NoEv == [read |-> FALSE, write |-> FALSE, error |-> FALSE, eof |-> FALSE]

\* what read() and write() can do
ReadOutcomes == {"again", "error", "zero", "data", "full"}
WriteOutcomes == {"again", "part", "one", "all", "error"}

\* socket_invalid
socket_invalid(s, id) == s.id # id \/ s.type = "INVALID"

\* send_buffer_empty
send_buffer_empty(s) == s.high = 0 /\ s.low = 0

\* nomore_sending_data
nomore_sending_data(s) ==
    \/ send_buffer_empty(s) /\ ~s.dw /\ s.sending = 0
    \/ s.type = "HALFCLOSE_WRITE"

\* new_fd: the fields of a socket that starts its life.  hpart tells whether
\* the head of the high list is partly sent (wb->ptr != wb->buffer) and which
\* list it was queued in ("no", "high", "low"); lpart is list_uncomplete of
\* the low list; torn is history: bytes of another buffer were written while
\* a buffer was partly sent
new_fd(s, id, type, reading) ==
    [type |-> type, id |-> id, reading |-> reading, writing |-> FALSE,
     closing |-> FALSE, high |-> 0, low |-> 0, dw |-> FALSE, sending |-> 0,
     hpart |-> "no", lpart |-> FALSE, torn |-> FALSE]

\* mutant: force_close leaves the type as it is
force_close_KeepsType(s) ==
    IF s.type = "INVALID" THEN s
    ELSE [s EXCEPT !.high = 0, !.low = 0, !.dw = FALSE, !.hpart = "no", !.lpart = FALSE]

\* force_close (the assert on SOCKET_TYPE_RESERVE is checked by the
\* callers).  reading, writing and closing of an INVALID slot are not read
\* again before new_fd sets them, so they are cleared here.
force_close(s) ==
    IF s.type = "INVALID" THEN s
    ELSE [s EXCEPT !.high = 0, !.low = 0, !.dw = FALSE, !.type = "INVALID",
                   !.hpart = "no", !.lpart = FALSE,
                   !.reading = FALSE, !.writing = FALSE, !.closing = FALSE]

\* mutant: close_read does not change the type
close_read_KeepsType(s) == [s EXCEPT !.reading = FALSE]

\* close_read
close_read(s) == [s EXCEPT !.type = "HALFCLOSE_READ", !.reading = FALSE]

\* close_write: the socket afterwards and what is returned ("none" for
\* SOCKET_RST, which send_buffer_ ignores)
close_write(s) ==
    IF s.closing \/ s.type = "HALFCLOSE_READ" THEN [s |-> force_close(s), ret |-> "none"]
    ELSE IF s.type = "HALFCLOSE_WRITE" THEN [s |-> s, ret |-> "none"]
    ELSE [s |-> [s EXCEPT !.type = "HALFCLOSE_WRITE", !.writing = FALSE], ret |-> "ERR"]

\* mutant: write monitoring stays on when the lists are empty
send_buffer_done_KeepsWrite(s) ==
    IF s.closing THEN [s |-> force_close(s), ret |-> "none"]
    ELSE [s |-> s, ret |-> "none"]

\* mutant: a closing socket is not closed when its lists are empty
send_buffer_done_NoClose(s) == [s |-> [s EXCEPT !.writing = FALSE], ret |-> "none"]

\* step 4 of send_buffer_: both lists are empty
send_buffer_done(s) ==
    IF s.closing THEN [s |-> force_close(s), ret |-> "none"]
    ELSE [s |-> [s EXCEPT !.writing = FALSE], ret |-> "none"]

\* mutant: a partly sent head stays in the low list
raise_uncomplete_Stays(t) == [t EXCEPT !.lpart = TRUE]

\* raise_uncomplete: the partly sent head of the low list becomes the only
\* buffer of the (empty) high list
raise_uncomplete(t) == [t EXCEPT !.low = @ - 1, !.high = 1, !.hpart = "low"]

\* send_buffer: the direct-write buffer goes in front of the high list, then
\* send_buffer_ writes the high list (outcome w1) and, when that is empty,
\* the low list (outcome w2).  The staged direct-write buffer counts as
\* partly sent (dw_offset bytes of it were written).
send_buffer(s0, w1, w2) ==
    LET s1 == IF s0.dw THEN [s0 EXCEPT !.dw = FALSE, !.high = @ + 1, !.hpart = "high"]
              ELSE s0
        \* write() put bytes of the head of the high list on the wire
        wrote == s1.high > 0 /\ w1 \in {"part", "one", "all"}
        s == [s1 EXCEPT !.torn = @ \/ (wrote /\ (s1.lpart \/ (s0.dw /\ s0.hpart # "no")))]
        \* the list after send_list_tcp: "all" empties it, "one" writes one
        \* buffer and blocks, "part" and "again" block at the head
        left(n, w) == IF w = "all" THEN 0 ELSE IF w = "one" /\ n > 1 THEN n - 1 ELSE n
        \* the head afterwards: untouched, a fresh buffer, or partly sent
        begun(n, w, p) == IF w = "again" THEN p
                          ELSE IF w = "one" /\ n > 1 THEN "no"
                          ELSE IF p = "no" THEN "high" ELSE p
    IN IF s.high > 0 /\ w1 = "error" THEN close_write(s)
       ELSE IF left(s.high, w1) > 0
       THEN [s |-> [s EXCEPT !.high = left(s.high, w1),
                             !.hpart = begun(s.high, w1, s.hpart)], ret |-> "none"]
       ELSE LET t == [s EXCEPT !.high = 0, !.hpart = "no"]
            IN IF t.low = 0 THEN send_buffer_done(t)
               ELSE IF w2 = "error" THEN close_write(t)
               ELSE IF w2 = "part" THEN [s |-> raise_uncomplete(t), ret |-> "none"]
               ELSE IF left(t.low, w2) > 0
               THEN [s |-> [t EXCEPT !.low = left(t.low, w2),
                                     !.lpart = IF w2 = "again" THEN @ ELSE FALSE],
                     ret |-> "none"]
               ELSE send_buffer_done([t EXCEPT !.low = 0, !.lpart = FALSE])

\* forward_message_tcp with the outcome r of read()
forward_message_tcp(s, r) ==
    CASE r = "again" -> [s |-> s, ret |-> "none"]
      [] r = "error" -> [s |-> s, ret |-> "ERR"]
      [] r = "zero" ->
            IF s.closing
            THEN [s |-> IF nomore_sending_data(s) THEN force_close(s) ELSE s, ret |-> "none"]
            ELSE IF s.type = "HALFCLOSE_READ" THEN [s |-> s, ret |-> "none"]
            ELSE IF s.type = "HALFCLOSE_WRITE" THEN [s |-> force_close(s), ret |-> "CLOSE"]
            ELSE [s |-> close_read(s), ret |-> "CLOSE"]
      [] OTHER ->
            IF s.type = "HALFCLOSE_READ" THEN [s |-> s, ret |-> "none"]
            ELSE [s |-> s, ret |-> IF r = "full" THEN "MORE" ELSE "DATA"]

\* ------------------------------------------------------------------ state
VARIABLES
    slot,      \* handle registry: slot[h] iff handle h is registered
    alive,     \* alive[c]: the skynet_context exists (allocated, not freed)
    ref,       \* ctx->ref
    init,      \* ctx->init
    cb,        \* ctx->cb # NULL
    ncreated,  \* number of skynet_context_new calls so far (handle_index)
    mq,        \* mq[c]: the message_queue of service c
    Q,         \* the global run queue: sequence of mailboxes (by handle)
    pc,        \* pc[t]: where thread t is
    k,         \* k[t]: where thread t continues after a release / drop
    hq,        \* hq[t]: the message_queue pointer thread t works on (0: NULL)
    hc,        \* hc[t]: the skynet_context pointer thread t holds (0: NULL)
    hm,        \* hm[t]: the skynet_message thread t holds
    hi,        \* hi[t]: loop index i of skynet_context_message_dispatch
    hn,        \* hn[t]: loop bound n of skynet_context_message_dispatch
    hnq,       \* hnq[t]: nq of skynet_context_message_dispatch (0: NULL)
    fate,      \* history: what became of each message
    dest,      \* history: the destination each user message was sent to
    deleted,   \* history: how many times delete_context ran for each service
    ring,      \* a message_queue studied in isolation
    rlinked,   \* how many times ring is linked in the global queue
    rheld,     \* a worker popped ring from the global queue and holds it
    rpushed,   \* history: number of messages pushed to ring
    rpopped,   \* history: ids of the messages popped from ring, in pop order
    rhist,     \* history: "wrap" / "grow" / "grow_wrapped" events of ring
    TI,        \* struct timer: near, t, time
    tpc,       \* where the timer thread is inside timer_update
    tcur,      \* the list timer_execute unlinked and dispatch_list walks
    ticks,     \* history: number of timer_shift calls (T->time without wrap)
    tstate,    \* history: "free" / "pending" / "done" for each timer
    due,       \* history: tick of registration + delay of a pending timer
    delay,     \* history: the delay a timer was registered with
    regno,     \* history: registration order of the timers
    tpushed,   \* history: sessions pushed by the timer, in push order
    zpc,       \* one skynet_send call: "call" before, "done" after
    zsz,       \* its sz argument
    ztype,     \* its type argument (message type and tags)
    zdata,     \* its data argument is not NULL
    zdst,      \* its destination: "zero", "local", "dead" or "remote"
    zsid,      \* context->session_id
    zret,      \* the value skynet_send returned
    zpacked,   \* the sz field of the message handed on (-1: none)
    zwhere,    \* where the message went: "none", "mailbox" or "harbor"
    H,         \* struct handle_storage
    xhandle,   \* ctx->handle of each context object
    xst,       \* each context object: "free", "window" (registered, ctx->handle
               \* not stored yet), "live", "zombie" (retired, still grabbed)
    xret,      \* history: the handle skynet_handle_register returned for it
    xheld,     \* a skynet_handle_grab reference to the context is outstanding
    nbound,    \* history: the handle each name was bound to (0: none)
    nreg,      \* history: number of skynet_handle_register calls
    habort,    \* an assert of skynet_handle_register failed
    sock,      \* struct socket of the slot every id hashes to
    alloc_id,  \* ss->alloc_id
    checkctrl, \* ss->checkctrl
    ev,        \* the event of the current batch for the slot (NoEv: none left)
    pipe,      \* requests in the control pipe: d[id] sends, w[id] a trigger
    nopen,     \* history: SOCKET_OPEN results per id
    nclose,    \* history: SOCKET_CLOSE results per id (2: two or more)
    late,      \* history: a SOCKET_DATA result came after SOCKET_CLOSE
    last,      \* history: the handler that ran last and what poll returned
               \* (turn flips with every handler)
    sabort,    \* the assert of force_close failed
    total,     \* G_NODE.total: the number of live services
    quit,      \* m->quit
    msleep,    \* m->sleep
    mutex,     \* m->mutex: 0 free, else the worker holding it
    wpc,       \* where each worker is in thread_worker
    wsync,     \* the worker locked m->mutex after quit was set
    timerpc,   \* where thread_timer is
    gwork,     \* mailboxes waiting in the global queue
    bmq,       \* batches: the number of messages in each mailbox
    bflag,     \* q->in_global of each mailbox
    bG,        \* the global queue of mailboxes
    bq,        \* the mailbox each worker holds (0: NULL)
    bpc,       \* where each worker is in skynet_context_message_dispatch
    bi,        \* i of the batch loop: messages handled in this call
    bn,        \* n of the batch loop
    bL,        \* history: the mailbox length when the batch began
    mpos,      \* the place of the followed message in its mailbox, 0 when none waits
    mbox,      \* the mailbox of the followed message, 0 for none
    sm,        \* the worker's skynet_monitor: version, check_version, destination
    endless,   \* ctx->endless of each service
    registered,\* the handle of each service is in the registry
    hpc,       \* where the worker is around dispatch_message
    hsvc,      \* the service whose message the worker handles (0: none)
    statpc,    \* cmd_stat "endless": before the test, or between test and clear
    checks,    \* history: monitor checks since the handler began (up to 2)
    marked,    \* history: the service was marked since the handler began
    unseen,    \* history: a mark no STAT call has answered with "1"
    spanned,      \* the dispatch in progress was in progress at the previous check
    incs,      \* increments of sm->version since the previous check
    lastmark,  \* what the check just made passed to skynet_context_endless
    ss_alloc,  \* reserve_id: ss->alloc_id
    ss_slot,   \* the type and id of every slot of ss->slot
    vpc,       \* where each thread is inside reserve_id
    vi,        \* its loop index i
    vid,       \* its candidate id
    vret,      \* what its last call returned (-2: nothing yet)
    vfree,     \* history: some slot was Invalid at some time during its call
    inuse,     \* history: ids handed out for each slot and not yet closed
    session_id, \* ctx->session_id of the service whose allocations are followed
    slast,     \* the session id allocated last, 0 before the first
    sprev,     \* the session id allocated before slast, 0 if none
    svia,      \* what allocated slast: "timeout", "send" or "none"
    sover,     \* how many allocations overflowed the counter
    qlock,     \* per mailbox: the thread holding q->lock, 0 when free
    glock,     \* the thread holding the lock of the global queue, 0 when free
    lpc,       \* per thread: its position in the operation
    lop,       \* per thread: the skynet_mq operation it runs, "none" when idle
    lq,        \* per thread: the mailbox of the operation, 0 for none
    ldrop,     \* per thread: the mailbox its _drop_queue empties, 0 for none
    lglobal,   \* per mailbox: q->in_global
    lrelease,  \* per mailbox: q->release
    lfreed,    \* per mailbox: _release has destroyed it
    lfirst,    \* per thread: the lock it took first of those it holds
    osock,     \* the socket whose write buffers are followed
    olock,     \* s->dw_lock: 0 free, the sending thread holding it, -1 the I/O thread
    opipe,     \* the requests in the control pipe, oldest first
    opc,       \* per sending thread: its position in socket_server_send
    ocur,      \* per sending thread: the buffer of its call
    ocalls,    \* calls of socket_server_send and _lowpriority so far
    oprev,     \* history: the last byte of a high-priority call written before ostep
    ostep,     \* history: the bytes of high-priority calls written by the last writing step
    oassert,   \* history: the assert of send_buffer_ failed
    ocallers,  \* history: the threads that have sent
    iopc,      \* the I/O thread: "poll", or "send_buffer" once it holds the lock
    oclosed    \* socket_server_close or _shutdown was called

schedvars == << slot, alive, ref, init, cb, ncreated, mq, Q, pc, k, hq, hc, hm, hi, hn,
                hnq, fate, dest, deleted >>
ringvars == << ring, rlinked, rheld, rpushed, rpopped, rhist >>
timervars == << TI, tpc, tcur, ticks, tstate, due, delay, regno, tpushed >>
sendvars == << zpc, zsz, ztype, zdata, zdst, zsid, zret, zpacked, zwhere >>
handlevars == << H, xhandle, xst, xret, xheld, nbound, nreg, habort >>
socketvars == << sock, alloc_id, checkctrl, ev, pipe, nopen, nclose, late, last, sabort >>
quitvars == << total, quit, msleep, mutex, wpc, wsync, timerpc, gwork >>
batchvars == << bmq, bflag, bG, bq, bpc, bi, bn, bL, mpos, mbox >>
monvars == << sm, endless, registered, hpc, hsvc, statpc, checks, marked, unseen, spanned, incs, lastmark >>
reservevars == << ss_alloc, ss_slot, vpc, vi, vid, vret, vfree, inuse >>
sessionvars == << session_id, slast, sprev, svia, sover >>
lockvars == << qlock, glock, lpc, lop, lq, ldrop, lglobal, lrelease, lfreed, lfirst >>
writevars == << osock, olock, opipe, opc, ocur, ocalls, oprev, ostep, oassert, ocallers, iopc, oclosed >>
\* what the steps of each part leave alone
xvars == << ringvars, timervars, sendvars, handlevars, socketvars, quitvars, batchvars, monvars, reservevars, sessionvars, lockvars, writevars >>
notring == << schedvars, timervars, sendvars, handlevars, socketvars, quitvars, batchvars, monvars, reservevars, sessionvars, lockvars, writevars >>
nottimer == << schedvars, ringvars, sendvars, handlevars, socketvars, quitvars, batchvars, monvars, reservevars, sessionvars, lockvars, writevars >>
notsend == << schedvars, ringvars, timervars, handlevars, socketvars, quitvars, batchvars, monvars, reservevars, sessionvars, lockvars, writevars >>
nothandle == << schedvars, ringvars, timervars, sendvars, socketvars, quitvars, batchvars, monvars, reservevars, sessionvars, lockvars, writevars >>
notsocket == << schedvars, ringvars, timervars, sendvars, handlevars, quitvars, batchvars, monvars, reservevars, sessionvars, lockvars, writevars >>
notquit == << schedvars, ringvars, timervars, sendvars, handlevars, socketvars, batchvars, monvars, reservevars, sessionvars, lockvars, writevars >>
notbatch == << schedvars, ringvars, timervars, sendvars, handlevars, socketvars, quitvars, monvars, reservevars, sessionvars, lockvars, writevars >>
notmon == << schedvars, ringvars, timervars, sendvars, handlevars, socketvars, quitvars, batchvars, reservevars, sessionvars, lockvars, writevars >>
notreserve == << schedvars, ringvars, timervars, sendvars, handlevars, socketvars, quitvars, batchvars, monvars, sessionvars, lockvars, writevars >>
notsession == << schedvars, ringvars, timervars, sendvars, handlevars, socketvars, quitvars, batchvars, monvars, reservevars, lockvars, writevars >>
notlock == << schedvars, ringvars, timervars, sendvars, handlevars, socketvars, quitvars, batchvars, monvars, reservevars, sessionvars, writevars >>
notwrite == << schedvars, ringvars, timervars, sendvars, handlevars, socketvars, quitvars, batchvars, monvars, reservevars, sessionvars, lockvars >>
vars == << schedvars, ringvars, timervars, sendvars, handlevars, socketvars, quitvars, batchvars, monvars, reservevars, sessionvars, lockvars, writevars >>

svars == << slot, alive, ref, init, cb, ncreated >>
tvars == << pc, k, hq, hc, hm, hi, hn, hnq >>
gvars == << fate, dest, deleted >>

\* The state in which the threads are started (skynet_start): the first
\* service was created by skynet_context_new on the main thread, its init
\* succeeded and installed a callback, and its (empty) mailbox was pushed to
\* the global queue.  The other services are created while threads run.
InitCore ==
    /\ slot = [c \in Ctxs |-> c = 1]
    /\ alive = [c \in Ctxs |-> c = 1]
    /\ ref = [c \in Ctxs |-> IF c = 1 THEN 1 ELSE 0]
    /\ init = [c \in Ctxs |-> c = 1]
    /\ cb = [c \in Ctxs |-> c = 1]
    /\ ncreated = 1
    /\ mq = [c \in Ctxs |-> IF c = 1 THEN skynet_mq_create ELSE NoQueue]
    /\ Q = << 1 >>
    /\ pc = [t \in Threads |-> "idle"]
    /\ k = [t \in Threads |-> "idle"]
    /\ hq = [t \in Threads |-> 0]
    /\ hc = [t \in Threads |-> 0]
    /\ hm = [t \in Threads |-> NoMsg]
    /\ hi = [t \in Threads |-> 0]
    /\ hn = [t \in Threads |-> 0]
    /\ hnq = [t \in Threads |-> 0]
    /\ fate = [i \in MsgIds |-> "unsent"]
    /\ dest = [i \in UserIds |-> 0]
    /\ deleted = [c \in Ctxs |-> 0]
    /\ ring = skynet_mq_create
    /\ rlinked = 1
    /\ rheld = FALSE
    /\ rpushed = 0
    /\ rpopped = << >>
    /\ rhist = {}
    /\ TI = timer_create_timer
    /\ tpc = "idle"
    /\ tcur = << >>
    /\ ticks = 0
    /\ tstate = [i \in TimerIds |-> "free"]
    /\ due = [i \in TimerIds |-> 0]
    /\ delay = [i \in TimerIds |-> 0]
    /\ regno = [i \in TimerIds |-> 0]
    /\ tpushed = << >>
    /\ H = skynet_handle_init
    /\ xhandle = [c \in Objs |-> 0]
    /\ xst = [c \in Objs |-> "free"]
    /\ xret = [c \in Objs |-> 0]
    /\ xheld = [c \in Objs |-> FALSE]
    /\ nbound = [n \in Names |-> 0]
    /\ nreg = 0
    /\ habort = FALSE
    /\ sock = new_fd(0, 0, "INVALID", FALSE)
    /\ alloc_id = 0
    /\ checkctrl = TRUE
    /\ ev = NoEv
    /\ pipe = [d |-> [i \in Ids |-> 0], w |-> [i \in Ids |-> FALSE]]
    /\ nopen = [i \in Ids |-> 0]
    /\ nclose = [i \in Ids |-> 0]
    /\ late = [i \in Ids |-> FALSE]
    /\ last = [op |-> "init", ret |-> "none", id |-> 0, turn |-> 0]
    /\ sabort = FALSE
    /\ total = NCtx
    /\ quit = FALSE
    /\ msleep = 0
    /\ mutex = 0
    /\ wpc = [w \in Threads |-> "test"]
    /\ wsync = [w \in Threads |-> FALSE]
    /\ timerpc = "check"
    /\ gwork = 0
    /\ bmq = [b \in 1..NBox |-> 0]
    /\ bflag = [b \in 1..NBox |-> FALSE]
    /\ bG = << >>
    /\ bq = [t \in Threads |-> 0]
    /\ bpc = [t \in Threads |-> "call"]
    /\ bi = [t \in Threads |-> 0]
    /\ bn = [t \in Threads |-> 1]
    /\ bL = [t \in Threads |-> 0]
    /\ mpos = 0
    /\ mbox = 0
    /\ sm = [version |-> 0, check_version |-> 0, destination |-> 0]
    /\ endless = [s \in 1..NSvc |-> FALSE]
    /\ registered = [s \in 1..NSvc |-> TRUE]
    /\ hpc = "idle"
    /\ hsvc = 0
    /\ statpc = "test"
    /\ checks = 0
    /\ marked = FALSE
    /\ unseen = [s \in 1..NSvc |-> FALSE]
    /\ spanned = FALSE
    /\ incs = 0
    /\ lastmark = [svc |-> 0, held |-> FALSE, incs |-> 0]
    /\ ss_alloc = 0
    /\ ss_slot = [h \in 0..(Pow2(MAX_SOCKET_P) - 1) |-> [type |-> "INVALID", id |-> 0]]
    /\ vpc = [t \in Threads |-> "idle"]
    /\ vi = [t \in Threads |-> 0]
    /\ vid = [t \in Threads |-> 0]
    /\ vret = [t \in Threads |-> -2]
    /\ vfree = [t \in Threads |-> FALSE]
    /\ inuse = [h \in 0..(Pow2(MAX_SOCKET_P) - 1) |-> 0]
    /\ session_id = 0
    /\ slast = 0
    /\ sprev = 0
    /\ svia = "none"
    /\ sover = 0
    /\ qlock = [q \in 1..NLockBoxes |-> 0]
    /\ glock = 0
    /\ lpc = [t \in 1..NLockers |-> "idle"]
    /\ lop = [t \in 1..NLockers |-> "none"]
    /\ lq = [t \in 1..NLockers |-> 0]
    /\ ldrop = [t \in 1..NLockers |-> 0]
    /\ lglobal = [q \in 1..NLockBoxes |-> TRUE]
    /\ lrelease = [q \in 1..NLockBoxes |-> FALSE]
    /\ lfreed = [q \in 1..NLockBoxes |-> FALSE]
    /\ lfirst = [t \in 1..NLockers |-> "none"]
    /\ osock = [type |-> "INVALID", protocol |-> "TCP", closing |-> FALSE,
                high |-> << >>, low |-> << >>, wb_size |-> 0, dw |-> << >>,
                sending |-> 0, writing |-> FALSE]
    /\ olock = 0
    /\ opipe = << >>
    /\ opc = [t \in 1..NSenders |-> "idle"]
    /\ ocur = [t \in 1..NSenders |-> << >>]
    /\ ocalls = 0
    /\ oprev = << 0, 0 >>
    /\ ostep = << >>
    /\ oassert = FALSE
    /\ ocallers = {}
    /\ iopc = "poll"
    /\ oclosed = FALSE

\* no skynet_send call is studied: its variables stay at these values
SendIdle ==
    /\ zpc = "done"
    /\ zsz = 0
    /\ ztype = 0
    /\ zdata = FALSE
    /\ zdst = "zero"
    /\ zsid = 0
    /\ zret = 0
    /\ zpacked = -1
    /\ zwhere = "none"

Init == InitCore /\ SendIdle

\* ------------------------------------------------------ shared operations
\* skynet_globalmq_push
skynet_globalmq_push(gq, h) == Append(gq, h)

\* mutant: the lookup finds a retired context that is still allocated
handle_found_Stale(h) == h \in Ctxs /\ alive[h]

\* skynet_handle_grab: the lookup succeeds iff the slot holds a context
\* whose handle is h
handle_found(h) == h \in Ctxs /\ slot[h]

\* mutant: the push links the mailbox into the global queue whatever
\* in_global says
MqPush_AlwaysLinks(h, msg) ==
    /\ mq' = [mq EXCEPT ![h] = [mq_store(mq[h], msg) EXCEPT !.in_global = MQ_IN_GLOBAL]]
    /\ Q' = skynet_globalmq_push(Q, h)

\* skynet_mq_push under the mailbox lock: store, then link the mailbox into
\* the global queue when in_global is 0
MqPush(h, msg) ==
    LET q1 == mq_store(mq[h], msg)
    IN IF q1.in_global = 0
       THEN /\ mq' = [mq EXCEPT ![h] = [q1 EXCEPT !.in_global = MQ_IN_GLOBAL]]
            /\ Q' = skynet_globalmq_push(Q, h)
       ELSE /\ mq' = [mq EXCEPT ![h] = q1]
            /\ Q' = Q

\* mutant: the grab does not count the reference
skynet_context_grab_NoCount(c) == ref

\* skynet_context_grab: ATOM_FINC(&ctx->ref)
skynet_context_grab(c) == [ref EXCEPT ![c] = @ + 1]

\* mutant: the release compares the decremented value with 1
ReleaseFrees_NewValue(c) == ref[c] - 1 = 1

\* skynet_context_release: ATOM_FDEC(&ctx->ref) == 1 leads to delete_context
ReleaseFrees(c) == ref[c] = 1

\* mutant: the pop of an empty mailbox leaves in_global set
mq_pop_empty_KeepsFlag(q) == q

\* skynet_mq_pop on an empty mailbox: in_global = 0
mq_pop_empty(q) == [q EXCEPT !.in_global = 0]

\* history update: message id met its fate
SetFate(id, f) == fate' = [i \in MsgIds |-> IF i = id THEN f ELSE fate[i]]

\* ------------------------------------------ skynet_context_message_dispatch
\* q == NULL: q = skynet_globalmq_pop(); an empty global queue returns NULL
\* and the worker stays idle
GlobalPop(t) ==
    /\ pc[t] = "idle"
    /\ Q # << >>
    /\ hq' = [hq EXCEPT ![t] = Head(Q)]
    /\ Q' = Tail(Q)
    /\ pc' = [pc EXCEPT ![t] = "d_grab"]
    /\ UNCHANGED << xvars, hnq, svars, mq, k, hc, hm, hi, hn, gvars >>

\* ctx = skynet_handle_grab(handle); NULL leads to skynet_mq_release
DispatchGrab(t) ==
    /\ pc[t] = "d_grab"
    /\ IF handle_found(hq[t])
       THEN /\ ref' = skynet_context_grab(hq[t])
            /\ hc' = [hc EXCEPT ![t] = hq[t]]
            /\ hi' = [hi EXCEPT ![t] = 0]
            /\ hn' = [hn EXCEPT ![t] = 1]
            /\ pc' = [pc EXCEPT ![t] = "d_pop"]
            /\ k' = k
       ELSE /\ pc' = [pc EXCEPT ![t] = "mq_release"]
            /\ UNCHANGED << ref, hc, hi, hn, k >>
    /\ UNCHANGED << xvars, hnq, slot, alive, init, cb, ncreated, mq, Q, hq, hm, gvars >>

\* skynet_mq_pop(q, &msg) in the batch loop: an empty mailbox clears
\* in_global and the worker releases the context
DispatchPop(t) ==
    /\ pc[t] = "d_pop"
    /\ LET q == mq[hq[t]]
       IN IF mq_empty(q)
          THEN /\ mq' = [mq EXCEPT ![hq[t]] = mq_pop_empty(q)]
               /\ pc' = [pc EXCEPT ![t] = "release"]
               /\ k' = [k EXCEPT ![t] = "d_ret_pop"]
               /\ hm' = hm
          ELSE /\ mq' = [mq EXCEPT ![hq[t]] = mq_take(q)]
               /\ hm' = [hm EXCEPT ![t] = mq_front(q)]
               /\ pc' = [pc EXCEPT ![t] =
                            IF hi[t] = 0 /\ Weight(t) >= 0 THEN "d_len" ELSE "d_cb"]
               /\ k' = k
    /\ UNCHANGED << xvars, hnq, svars, Q, hq, hc, hi, hn, gvars >>

\* i == 0 && weight >= 0: n = skynet_mq_length(q); n >>= weight
DispatchLength(t) ==
    /\ pc[t] = "d_len"
    /\ hn' = [hn EXCEPT ![t] = skynet_mq_length(mq[hq[t]]) \div Pow2(Weight(t))]
    /\ pc' = [pc EXCEPT ![t] = "d_cb"]
    /\ UNCHANGED << xvars, hnq, svars, mq, Q, k, hq, hc, hm, hi, gvars >>

\* where the batch loop goes after one message: i++, then i < n
AfterMessage(t) == IF hi[t] + 1 < hn[t] THEN "d_pop" ELSE "d_end"

\* ctx->cb == NULL frees the message; otherwise dispatch_message runs the
\* handler
DispatchCallback(t) ==
    /\ pc[t] = "d_cb"
    /\ IF ~cb[hc[t]]
       THEN /\ SetFate(hm[t].id, "discarded")
            /\ hm' = [hm EXCEPT ![t] = NoMsg]
            /\ hi' = [hi EXCEPT ![t] = @ + 1]
            /\ pc' = [pc EXCEPT ![t] = AfterMessage(t)]
       ELSE /\ SetFate(hm[t].id, "handled")
            /\ pc' = [pc EXCEPT ![t] = "handler"]
            /\ UNCHANGED << hm, hi >>
    /\ UNCHANGED << xvars, hnq, svars, mq, Q, k, hq, hc, hn, dest, deleted >>

\* the handler (ctx->cb) returns
HandlerReturn(t) ==
    /\ pc[t] = "handler"
    /\ hm' = [hm EXCEPT ![t] = NoMsg]
    /\ hi' = [hi EXCEPT ![t] = @ + 1]
    /\ pc' = [pc EXCEPT ![t] = AfterMessage(t)]
    /\ UNCHANGED << xvars, hnq, svars, mq, Q, k, hq, hc, hn, gvars >>

\* after the batch: nq = skynet_globalmq_pop()
DispatchEnd(t) ==
    /\ pc[t] = "d_end"
    /\ IF Q # << >>
       THEN /\ hnq' = [hnq EXCEPT ![t] = Head(Q)]
            /\ Q' = Tail(Q)
            /\ pc' = [pc EXCEPT ![t] = "d_requeue"]
            /\ k' = k
       ELSE /\ pc' = [pc EXCEPT ![t] = "release"]
            /\ k' = [k EXCEPT ![t] = "d_grab"]
            /\ UNCHANGED << hnq, Q >>
    /\ UNCHANGED << xvars, svars, mq, hq, hc, hm, hi, hn, gvars >>

\* nq != NULL: skynet_globalmq_push(q); q = nq
DispatchRequeue(t) ==
    /\ pc[t] = "d_requeue"
    /\ Q' = skynet_globalmq_push(Q, hq[t])
    /\ hq' = [hq EXCEPT ![t] = hnq[t]]
    /\ hnq' = [hnq EXCEPT ![t] = 0]
    /\ pc' = [pc EXCEPT ![t] = "release"]
    /\ k' = [k EXCEPT ![t] = "d_grab"]
    /\ UNCHANGED << xvars, svars, mq, hc, hm, hi, hn, gvars >>

\* return skynet_globalmq_pop(): the worker's next mailbox, or NULL
ReturnPop(t) ==
    /\ pc[t] = "d_ret_pop"
    /\ IF Q # << >>
       THEN /\ hq' = [hq EXCEPT ![t] = Head(Q)]
            /\ Q' = Tail(Q)
            /\ pc' = [pc EXCEPT ![t] = "d_grab"]
       ELSE /\ hq' = [hq EXCEPT ![t] = 0]
            /\ Q' = Q
            /\ pc' = [pc EXCEPT ![t] = "idle"]
    /\ hi' = [hi EXCEPT ![t] = 0]
    /\ hn' = [hn EXCEPT ![t] = 0]
    /\ UNCHANGED << xvars, hnq, svars, mq, k, hc, hm, gvars >>

\* ------------------------------------------------- skynet_context_release
\* where a thread continues once its release (and delete_context) is done:
\* the release inside drop_message returns into the _drop_queue loop
ReleaseCont(t) == IF pc[t] \in {"drop_release", "drop_delete"} THEN "drop" ELSE k[t]

\* skynet_context_release: ATOM_FDEC(&ctx->ref); the old value 1 leads to
\* delete_context
Release(t) ==
    /\ pc[t] \in {"release", "drop_release"}
    /\ ref' = [ref EXCEPT ![hc[t]] = @ - 1]
    /\ IF ReleaseFrees(hc[t])
       THEN /\ pc' = [pc EXCEPT ![t] = IF pc[t] = "release" THEN "delete" ELSE "drop_delete"]
            /\ UNCHANGED << hc, hq >>
       ELSE /\ pc' = [pc EXCEPT ![t] = ReleaseCont(t)]
            /\ hc' = [hc EXCEPT ![t] = 0]
            /\ hq' = [hq EXCEPT ![t] = IF ReleaseCont(t) = "idle" THEN 0 ELSE @]
    /\ UNCHANGED << xvars, hnq, slot, alive, init, cb, ncreated, mq, Q, k, hm, hi, hn, gvars >>

\* skynet_mq_mark_release under the mailbox lock: release = 1, and the
\* mailbox is linked into the global queue unless in_global is set
skynet_mq_mark_release(h) ==
    /\ mq' = [mq EXCEPT ![h].release = 1]
    /\ Q' = IF mq[h].in_global # MQ_IN_GLOBAL THEN skynet_globalmq_push(Q, h) ELSE Q

\* delete_context: skynet_mq_mark_release(ctx->queue), skynet_free(ctx)
Delete(t) ==
    /\ pc[t] \in {"delete", "drop_delete"}
    /\ skynet_mq_mark_release(hc[t])
    /\ alive' = [alive EXCEPT ![hc[t]] = FALSE]
    /\ deleted' = [deleted EXCEPT ![hc[t]] = @ + 1]
    /\ pc' = [pc EXCEPT ![t] = ReleaseCont(t)]
    /\ hc' = [hc EXCEPT ![t] = 0]
    /\ hq' = [hq EXCEPT ![t] = IF ReleaseCont(t) = "idle" THEN 0 ELSE @]
    /\ UNCHANGED << xvars, hnq, slot, ref, init, cb, ncreated, k, hm, hi, hn, fate, dest >>

\* ------------------------------------------------------- skynet_mq_release
\* skynet_mq_release under the mailbox lock: a mailbox marked for release is
\* drained by _drop_queue, any other is pushed back to the global queue
\* (the caller is skynet_context_message_dispatch, which goes on to
\* skynet_globalmq_pop, or the failure branch of skynet_context_new, which
\* returns)
MqReleaseCont(t) == IF pc[t] = "n_mqrel" THEN "idle" ELSE "d_ret_pop"

MqRelease(t) ==
    /\ pc[t] \in {"mq_release", "n_mqrel"}
    /\ IF mq[hq[t]].release = 1
       THEN /\ pc' = [pc EXCEPT ![t] = "drop"]
            /\ k' = [k EXCEPT ![t] = MqReleaseCont(t)]
            /\ UNCHANGED << Q, hq >>
       ELSE /\ Q' = skynet_globalmq_push(Q, hq[t])
            /\ pc' = [pc EXCEPT ![t] = MqReleaseCont(t)]
            /\ hq' = [hq EXCEPT ![t] = IF MqReleaseCont(t) = "idle" THEN 0 ELSE @]
            /\ k' = k
    /\ UNCHANGED << xvars, hnq, svars, mq, hc, hm, hi, hn, gvars >>

\* _drop_queue: skynet_mq_pop until the mailbox is empty, then _release(q)
DropPop(t) ==
    /\ pc[t] = "drop"
    /\ LET q == mq[hq[t]]
       IN IF mq_empty(q)
          THEN /\ mq' = [mq EXCEPT ![hq[t]] = NoQueue]
               /\ pc' = [pc EXCEPT ![t] = k[t]]
               /\ hq' = [hq EXCEPT ![t] = IF k[t] = "idle" THEN 0 ELSE @]
               /\ hm' = hm
          ELSE /\ mq' = [mq EXCEPT ![hq[t]] = mq_take(q)]
               /\ hm' = [hm EXCEPT ![t] = mq_front(q)]
               /\ pc' = [pc EXCEPT ![t] = "drop_send"]
               /\ hq' = hq
    /\ UNCHANGED << xvars, hnq, svars, Q, k, hc, hi, hn, gvars >>

\* mutant: the error message does not carry the dropped message's session
ErrorMessage_NoSession(msg, h) ==
    [id |-> IF ErrId(msg.id) \in MsgIds THEN ErrId(msg.id) ELSE 0,
     source |-> h, session |-> 0, type |-> PTYPE_ERROR]

\* the message drop_message sends: PTYPE_ERROR from the dropped service,
\* with the dropped message's session and no data
ErrorMessage(msg, h) ==
    [id |-> IF ErrId(msg.id) \in MsgIds THEN ErrId(msg.id) ELSE 0,
     source |-> h, session |-> msg.session, type |-> PTYPE_ERROR]

\* mutant: _drop_queue frees the message without calling drop_func
DropSend_Silent(t) ==
    /\ pc[t] = "drop_send"
    /\ SetFate(hm[t].id, "errlost")
    /\ hm' = [hm EXCEPT ![t] = NoMsg]
    /\ pc' = [pc EXCEPT ![t] = "drop"]
    /\ UNCHANGED << xvars, hnq, svars, mq, Q, k, hq, hc, hi, hn, dest, deleted >>

\* drop_message addresses the error to the source of the dropped message
drop_target(msg) == msg.source

\* drop_message: skynet_send(NULL, source, msg->source, PTYPE_ERROR,
\* msg->session, NULL, 0), up to the skynet_handle_grab in skynet_context_push
DropSend(t) ==
    /\ pc[t] = "drop_send"
    /\ LET to == drop_target(hm[t])
           e == ErrorMessage(hm[t], hq[t])
       IN IF handle_found(to)
          THEN /\ ref' = skynet_context_grab(to)
               /\ hc' = [hc EXCEPT ![t] = to]
               /\ fate' = [i \in MsgIds |-> IF i = hm[t].id THEN "errsent"
                                             ELSE IF i = e.id THEN "queued"
                                             ELSE fate[i]]
               /\ hm' = [hm EXCEPT ![t] = e]
               /\ pc' = [pc EXCEPT ![t] = "drop_push"]
          ELSE /\ fate' = [i \in MsgIds |-> IF i = hm[t].id THEN "errlost"
                                             ELSE IF i = e.id THEN "rejected"
                                             ELSE fate[i]]
               /\ hm' = [hm EXCEPT ![t] = NoMsg]
               /\ pc' = [pc EXCEPT ![t] = "drop"]
               /\ UNCHANGED << ref, hc >>
    /\ UNCHANGED << xvars, hnq, slot, alive, init, cb, ncreated, mq, Q, k, hq, hi, hn, dest, deleted >>

\* skynet_context_push: skynet_mq_push(ctx->queue, message), then the
\* release of the grabbed context
DropPush(t) ==
    /\ pc[t] = "drop_push"
    /\ MqPush(hc[t], hm[t])
    /\ hm' = [hm EXCEPT ![t] = NoMsg]
    /\ pc' = [pc EXCEPT ![t] = "drop_release"]
    /\ UNCHANGED << xvars, hnq, svars, k, hq, hc, hi, hn, gvars >>

\* ------------------------------------------------------------ skynet_send
\* skynet_send(context, source, destination, type, session, data, sz), called
\* by the code of service SrcOf(id) (its context exists), up to the
\* skynet_handle_grab in skynet_context_push.  Destination 0 returns -1
\* when there is data and the session when there is none; a destination
\* that is not registered returns -1 ("rejected").
Send(t, id, dst, data) ==
    /\ pc[t] = "idle"
    /\ fate[id] = "unsent"
    /\ alive[SrcOf(id)]
    /\ dest' = [dest EXCEPT ![id] = dst]
    /\ LET msg == [id |-> id, source |-> SrcOf(id), session |-> id, type |-> PTYPE_TEXT]
       IN IF dst = 0
          THEN /\ SetFate(id, IF data THEN "rejected" ELSE "nulldst")
               /\ UNCHANGED << ref, hc, hm, pc >>
          ELSE IF handle_found(dst)
          THEN /\ ref' = skynet_context_grab(dst)
               /\ hc' = [hc EXCEPT ![t] = dst]
               /\ hm' = [hm EXCEPT ![t] = msg]
               /\ SetFate(id, "queued")
               /\ pc' = [pc EXCEPT ![t] = "s_push"]
          ELSE /\ SetFate(id, "rejected")
               /\ UNCHANGED << ref, hc, hm, pc >>
    /\ UNCHANGED << xvars, hnq, slot, alive, init, cb, ncreated, mq, Q, k, hq, hi, hn, deleted >>

\* skynet_context_push: skynet_mq_push(ctx->queue, message), then
\* skynet_context_release(ctx)
SendPush(t) ==
    /\ pc[t] = "s_push"
    /\ MqPush(hc[t], hm[t])
    /\ hm' = [hm EXCEPT ![t] = NoMsg]
    /\ pc' = [pc EXCEPT ![t] = "release"]
    /\ k' = [k EXCEPT ![t] = "idle"]
    /\ UNCHANGED << xvars, hnq, svars, hq, hc, hi, hn, gvars >>

\* ---------------------------------------------------- skynet_handle_retire
\* under the write lock: the slot is cleared when it holds the context of
\* this handle; the context is released after the unlock
Retire(t, h) ==
    /\ pc[t] = "idle"
    /\ handle_found(h)
    /\ slot' = [slot EXCEPT ![h] = FALSE]
    /\ hc' = [hc EXCEPT ![t] = h]
    /\ pc' = [pc EXCEPT ![t] = "release"]
    /\ k' = [k EXCEPT ![t] = "idle"]
    /\ UNCHANGED << xvars, hnq, alive, ref, init, cb, ncreated, mq, Q, hq, hm, hi, hn, gvars >>

\* ------------------------------------------------------ skynet_context_new
\* allocation: ref = 2, cb = NULL, init = false, skynet_handle_register,
\* skynet_mq_create (in_global set)
New(t) ==
    /\ pc[t] = "idle"
    /\ ncreated < NCtx
    /\ LET c == ncreated + 1
       IN /\ ncreated' = c
          /\ slot' = [slot EXCEPT ![c] = TRUE]
          /\ alive' = [alive EXCEPT ![c] = TRUE]
          /\ ref' = [ref EXCEPT ![c] = 2]
          /\ init' = [init EXCEPT ![c] = FALSE]
          /\ cb' = [cb EXCEPT ![c] = FALSE]
          /\ mq' = [mq EXCEPT ![c] = skynet_mq_create]
          /\ hc' = [hc EXCEPT ![t] = c]
          /\ hq' = [hq EXCEPT ![t] = c]
    /\ pc' = [pc EXCEPT ![t] = "n_init"]
    /\ UNCHANGED << xvars, hnq, Q, k, hm, hi, hn, gvars >>

\* skynet_module_instance_init: the module may install a callback
\* (skynet_callback) and returns r; r # 0 goes to the failure branch, which
\* starts with skynet_context_release(ctx)
NewInit(t, cbset, r) ==
    /\ pc[t] = "n_init"
    /\ cb' = [cb EXCEPT ![hc[t]] = cbset]
    /\ pc' = [pc EXCEPT ![t] = IF r = 0 THEN "n_ok" ELSE "release"]
    /\ k' = [k EXCEPT ![t] = IF r = 0 THEN @ ELSE "n_retire"]
    /\ UNCHANGED << xvars, hnq, slot, alive, ref, init, ncreated, mq, Q, hq, hc, hm, hi, hn, gvars >>

\* r == 0: ret = skynet_context_release(ctx)
NewRelease(t) ==
    /\ pc[t] = "n_ok"
    /\ ref' = [ref EXCEPT ![hc[t]] = @ - 1]
    /\ IF ReleaseFrees(hc[t])
       THEN /\ pc' = [pc EXCEPT ![t] = "delete"]
            /\ k' = [k EXCEPT ![t] = "n_push"]
       ELSE /\ pc' = [pc EXCEPT ![t] = "n_setinit"]
            /\ k' = k
    /\ UNCHANGED << xvars, hnq, slot, alive, init, cb, ncreated, mq, Q, hq, hc, hm, hi, hn, gvars >>

\* if (ret) ctx->init = true.  Nothing keeps the context alive between the
\* release and this store: when another thread has retired the handle in
\* between, the store goes to freed memory and changes nothing here.
NewSetInit(t) ==
    /\ pc[t] = "n_setinit"
    /\ init' = [init EXCEPT ![hc[t]] = IF alive[hc[t]] THEN TRUE ELSE @]
    /\ hc' = [hc EXCEPT ![t] = 0]
    /\ pc' = [pc EXCEPT ![t] = "n_push"]
    /\ UNCHANGED << xvars, hnq, slot, alive, ref, cb, ncreated, mq, Q, k, hq, hm, hi, hn, gvars >>

\* skynet_globalmq_push(queue)
NewPush(t) ==
    /\ pc[t] = "n_push"
    /\ Q' = skynet_globalmq_push(Q, hq[t])
    /\ hq' = [hq EXCEPT ![t] = 0]
    /\ pc' = [pc EXCEPT ![t] = "idle"]
    /\ UNCHANGED << xvars, hnq, svars, mq, k, hc, hm, hi, hn, gvars >>

\* failure branch: skynet_handle_retire(handle), then skynet_mq_release
NewRetire(t) ==
    /\ pc[t] = "n_retire"
    /\ IF handle_found(hq[t])
       THEN /\ slot' = [slot EXCEPT ![hq[t]] = FALSE]
            /\ hc' = [hc EXCEPT ![t] = hq[t]]
            /\ pc' = [pc EXCEPT ![t] = "release"]
            /\ k' = [k EXCEPT ![t] = "n_mqrel"]
       ELSE /\ pc' = [pc EXCEPT ![t] = "n_mqrel"]
            /\ UNCHANGED << slot, hc, k >>
    /\ UNCHANGED << xvars, hnq, alive, ref, init, cb, ncreated, mq, Q, hq, hm, hi, hn, gvars >>

\* ------------------------------------------------------------ the system
Next ==
    \E t \in Threads :
        \/ GlobalPop(t)
        \/ DispatchGrab(t)
        \/ DispatchPop(t)
        \/ DispatchLength(t)
        \/ DispatchCallback(t)
        \/ HandlerReturn(t)
        \/ DispatchEnd(t)
        \/ DispatchRequeue(t)
        \/ ReturnPop(t)
        \/ Release(t)
        \/ Delete(t)
        \/ MqRelease(t)
        \/ DropPop(t)
        \/ DropSend(t)
        \/ DropPush(t)
        \/ \E id \in UserIds, dst \in 0..NCtx, data \in BOOLEAN : Send(t, id, dst, data)
        \/ SendPush(t)
        \/ \E h \in Ctxs : Retire(t, h)
        \/ New(t)
        \/ \E cbset \in BOOLEAN, r \in 0..1 : NewInit(t, cbset, r)
        \/ NewRelease(t)
        \/ NewSetInit(t)
        \/ NewPush(t)
        \/ NewRetire(t)

Spec == Init /\ [][Next]_vars

\* ------------------------------------------------- one mailbox in isolation
\* the i-th message pushed
RingMsg(i) == [id |-> i, source |-> 0, session |-> i, type |-> PTYPE_TEXT]

\* skynet_mq_push: store under the lock, link the mailbox when in_global is 0
RingPush ==
    /\ rpushed < MaxPush
    /\ LET q1 == mq_store(ring, RingMsg(rpushed + 1))
       IN /\ ring' = IF q1.in_global = 0
                     THEN [q1 EXCEPT !.in_global = MQ_IN_GLOBAL] ELSE q1
          /\ rlinked' = IF q1.in_global = 0 THEN rlinked + 1 ELSE rlinked
          /\ rhist' = rhist
                      \cup (IF ring.tail + 1 >= ring.cap THEN {"wrap"} ELSE {})
                      \cup (IF q1.cap > ring.cap
                            THEN {IF ring.head # 0 THEN "grow_wrapped" ELSE "grow"}
                            ELSE {})
    /\ rpushed' = rpushed + 1
    /\ UNCHANGED << rheld, rpopped, notring >>

\* skynet_globalmq_pop by a worker
RingTake ==
    /\ rlinked > 0
    /\ ~rheld
    /\ rlinked' = rlinked - 1
    /\ rheld' = TRUE
    /\ UNCHANGED << ring, rpushed, rpopped, rhist, notring >>

\* skynet_mq_pop by the worker that holds the mailbox: an empty mailbox
\* clears in_global and the worker lets go of it
RingPop ==
    /\ rheld
    /\ IF mq_empty(ring)
       THEN /\ ring' = mq_pop_empty(ring)
            /\ rheld' = FALSE
            /\ rpopped' = rpopped
       ELSE /\ ring' = mq_take(ring)
            /\ rpopped' = Append(rpopped, mq_front(ring).id)
            /\ rheld' = rheld
    /\ UNCHANGED << rlinked, rpushed, rhist, notring >>

\* the end of skynet_context_message_dispatch: skynet_globalmq_push(q)
RingRequeue ==
    /\ rheld
    /\ rlinked' = rlinked + 1
    /\ rheld' = FALSE
    /\ UNCHANGED << ring, rpushed, rpopped, rhist, notring >>

NextMQ ==
    \/ RingPush
    \/ RingTake
    \/ RingPop
    \/ RingRequeue

SpecMQ == Init /\ [][NextMQ]_vars

\* ------------------------------------------------------------------ timer
\* skynet_timeout(handle, time, session) with session id: time <= 0 pushes
\* the response at once, otherwise timer_add links a node expiring at
\* time + T->time
skynet_timeout(id, time) ==
    /\ tstate[id] = "free"
    /\ regno' = [regno EXCEPT ![id] = Cardinality({i \in TimerIds : tstate[i] # "free"}) + 1]
    /\ delay' = [delay EXCEPT ![id] = time]
    /\ IF time <= 0
       THEN /\ tpushed' = Append(tpushed, id)
            /\ tstate' = [tstate EXCEPT ![id] = "done"]
            /\ UNCHANGED << TI, due >>
       ELSE /\ TI' = add_node(TI, [expire |-> (time + TI.time) % TIME_WRAP,
                                   session |-> id])
            /\ tstate' = [tstate EXCEPT ![id] = "pending"]
            /\ due' = [due EXCEPT ![id] = ticks + time]
            /\ tpushed' = tpushed
    /\ UNCHANGED << tpc, tcur, ticks, nottimer >>

\* timer_execute with the lock held: unlink the list of the current slot
\* and leave the lock to dispatch it (position there), or go on (position
\* after) when the slot is empty
TimerExecute(T, there, after) ==
    LET idx == timer_execute_idx(T)
    IN IF T.near[idx] # << >>
       THEN /\ tcur' = T.near[idx]
            /\ TI' = [T EXCEPT !.near[idx] = << >>]
            /\ tpc' = there
       ELSE /\ tcur' = << >>
            /\ TI' = T
            /\ tpc' = after

\* timer_update from SPIN_LOCK: the first timer_execute; on an empty slot
\* timer_shift and the second timer_execute follow under the same lock
TimerUpdate ==
    /\ tpc = "idle"
    /\ ticks < MaxTicks
    /\ IF TI.near[timer_execute_idx(TI)] # << >>
       THEN /\ TimerExecute(TI, "dispatch1", "idle")
            /\ ticks' = ticks
       ELSE /\ TimerExecute(timer_shift(TI), "dispatch2", "idle")
            /\ ticks' = ticks + 1
    /\ UNCHANGED << tstate, due, delay, regno, tpushed, nottimer >>

\* dispatch_list, one node: skynet_context_push of the PTYPE_RESPONSE
TimerDispatch ==
    /\ tpc \in {"dispatch1", "dispatch2"}
    /\ tcur # << >>
    /\ tpushed' = Append(tpushed, Head(tcur).session)
    /\ tstate' = [tstate EXCEPT ![Head(tcur).session] = "done"]
    /\ due' = [due EXCEPT ![Head(tcur).session] = 0]
    /\ tcur' = Tail(tcur)
    /\ tpc' = IF Tail(tcur) # << >> THEN tpc
              ELSE IF tpc = "dispatch1" THEN "relock1" ELSE "relock2"
    /\ UNCHANGED << TI, ticks, delay, regno, nottimer >>

\* SPIN_LOCK after dispatch_list: the while of timer_execute looks at the
\* slot again; the first timer_execute is followed by timer_shift and the
\* second one, the second one by SPIN_UNLOCK
TimerRelock ==
    /\ tpc \in {"relock1", "relock2"}
    /\ IF TI.near[timer_execute_idx(TI)] # << >>
       THEN /\ TimerExecute(TI, IF tpc = "relock1" THEN "dispatch1" ELSE "dispatch2", "idle")
            /\ ticks' = ticks
       ELSE IF tpc = "relock1"
            THEN /\ TimerExecute(timer_shift(TI), "dispatch2", "idle")
                 /\ ticks' = ticks + 1
            ELSE /\ tpc' = "idle"
                 /\ UNCHANGED << TI, tcur, ticks >>
    /\ UNCHANGED << tstate, due, delay, regno, tpushed, nottimer >>

NextTimer ==
    \/ \E id \in TimerIds, time \in 0..MaxDelay : skynet_timeout(id, time)
    \/ TimerUpdate
    \/ TimerDispatch
    \/ TimerRelock

SpecTimer == Init /\ [][NextTimer]_vars

\* ----------------------------------------------- one skynet_send call
\* the arguments of the call and the session counter of the caller
SendInputs ==
    /\ zpc = "call"
    /\ zsz \in SizeInputs
    /\ ztype \in TypeInputs
    /\ zdata \in BOOLEAN
    /\ zdst \in {"zero", "local", "dead", "remote"}
    /\ zsid \in {0, 41}
    /\ zret = 0
    /\ zpacked = -1
    /\ zwhere = "none"

\* skynet_send: the size check, _filter_args (session allocation, type
\* packed into the high byte of sz), then destination 0, the harbor or
\* skynet_context_push
SendCall ==
    /\ zpc = "call"
    /\ zpc' = "done"
    /\ IF BitAnd(zsz, MESSAGE_TYPE_MASK) # zsz
       THEN /\ zret' = -2
            /\ UNCHANGED << zsid, zpacked, zwhere >>
       ELSE LET allocsession == BitAnd(ztype, PTYPE_TAG_ALLOCSESSION) # 0
                type == BitAnd(ztype, 255)
                session == IF allocsession THEN skynet_context_newsession(zsid) ELSE 3
                sz == BitOr(zsz, type * Pow2(MESSAGE_TYPE_SHIFT))
            IN /\ zsid' = IF allocsession THEN session ELSE zsid
               /\ CASE zdst = "zero" ->
                         /\ zret' = IF zdata THEN -1 ELSE session
                         /\ UNCHANGED << zpacked, zwhere >>
                    [] zdst = "remote" ->
                         /\ zret' = session
                         /\ zpacked' = sz
                         /\ zwhere' = "harbor"
                    [] zdst = "local" ->
                         /\ zret' = session
                         /\ zpacked' = sz
                         /\ zwhere' = "mailbox"
                    [] zdst = "dead" ->
                         /\ zret' = -1
                         /\ UNCHANGED << zpacked, zwhere >>
    /\ UNCHANGED << zsz, ztype, zdata, zdst, notsend >>

NextSend == SendCall

InitSend == InitCore /\ SendInputs

SpecSend == InitSend /\ [][NextSend]_vars

\* ------------------------------------------------------- handle registry
\* skynet_context_new: the new context is the first unused object;
\* ctx->handle = 0, then skynet_handle_register(ctx) under the write lock;
\* the handle it returns is stored into ctx->handle after the lock is
\* released (ContextStoreHandle)
HandleRegister(c) ==
    /\ ~habort
    /\ xst[c] = "free"
    /\ \A d \in Objs : d < c => xst[d] # "free"
    /\ nreg < MaxReg
    /\ nreg' = nreg + 1
    /\ LET r == skynet_handle_register(H, c, xhandle)
       IN IF r.ok
          THEN /\ H' = r.H
               /\ xret' = [xret EXCEPT ![c] = r.handle]
               /\ xst' = [xst EXCEPT ![c] = "window"]
               /\ habort' = FALSE
          ELSE /\ habort' = TRUE
               /\ UNCHANGED << H, xret, xst >>
    /\ UNCHANGED << xhandle, xheld, nbound, nothandle >>

\* ctx->handle = (the value skynet_handle_register returned)
ContextStoreHandle(c) ==
    /\ ~habort
    /\ xst[c] = "window"
    /\ xhandle' = [xhandle EXCEPT ![c] = xret[c]]
    /\ xst' = [xst EXCEPT ![c] = "live"]
    /\ UNCHANGED << H, xret, xheld, nbound, nreg, habort, nothandle >>

\* a context object whose last reference is gone is freed
FreeContext(c, held) == IF held THEN "zombie" ELSE "free"

\* skynet_handle_retire(handle): clear the slot, drop the names of the
\* handle, release the registry's reference
HandleRetire(handle) ==
    /\ ~habort
    /\ LET c == handle_lookup(H, xhandle, handle)
       IN /\ c # 0
          /\ H' = retire_names([H EXCEPT !.slot[BitAnd(handle, H.slot_size - 1)] = 0], handle)
          /\ xst' = [xst EXCEPT ![c] = FreeContext(c, xheld[c])]
          /\ xhandle' = [xhandle EXCEPT ![c] = IF xheld[c] THEN @ ELSE 0]
          /\ xret' = [xret EXCEPT ![c] = IF xheld[c] THEN @ ELSE 0]
          /\ nbound' = [n \in Names |-> IF nbound[n] = handle THEN 0 ELSE nbound[n]]
    /\ UNCHANGED << xheld, nreg, habort, nothandle >>

\* skynet_handle_grab(handle) finds the context and takes a reference
HandleGrab(handle) ==
    /\ ~habort
    /\ LET c == handle_lookup(H, xhandle, handle)
       IN /\ c # 0
          /\ ~xheld[c]
          /\ xheld' = [xheld EXCEPT ![c] = TRUE]
    /\ UNCHANGED << H, xhandle, xst, xret, nbound, nreg, habort, nothandle >>

\* skynet_context_release of a grabbed reference
HandleUngrab(c) ==
    /\ ~habort
    /\ xheld[c]
    /\ xheld' = [xheld EXCEPT ![c] = FALSE]
    /\ xst' = [xst EXCEPT ![c] = IF @ = "zombie" THEN "free" ELSE @]
    /\ xhandle' = [xhandle EXCEPT ![c] = IF xst[c] = "zombie" THEN 0 ELSE @]
    /\ xret' = [xret EXCEPT ![c] = IF xst[c] = "zombie" THEN 0 ELSE @]
    /\ UNCHANGED << H, nbound, nreg, habort, nothandle >>

\* skynet_handle_namehandle(handle, name)
HandleName(handle, name) ==
    /\ ~habort
    /\ H' = insert_name(H, name, handle)
    /\ H' # H
    /\ nbound' = [nbound EXCEPT ![name] = handle]
    /\ UNCHANGED << xhandle, xst, xret, xheld, nreg, habort, nothandle >>

NextHandle ==
    \/ \E c \in Objs : HandleRegister(c)
    \/ \E c \in Objs : ContextStoreHandle(c)
    \/ \E h \in Handles : HandleRetire(h)
    \/ \E h \in Handles : HandleGrab(h)
    \/ \E c \in Objs : HandleUngrab(c)
    \/ \E h \in Handles, n \in Names : HandleName(h, n)

SpecHandle == Init /\ [][NextHandle]_vars

\* ---------------------------------------------------------------- shutdown
\* delete_context of the last reference of a service (after
\* skynet_handle_retireall or a retire): the count of services goes down
ServiceGone ==
    /\ total > 0
    /\ total' = total - 1
    /\ UNCHANGED << quit, msleep, mutex, wpc, wsync, timerpc, gwork, notquit >>

\* a live service sends a message: a mailbox enters the global queue
ServiceWork ==
    /\ total > 0
    /\ gwork < MaxWork
    /\ gwork' = gwork + 1
    /\ UNCHANGED << total, quit, msleep, mutex, wpc, wsync, timerpc, notquit >>

\* thread_worker: while (!m->quit), read without the mutex; the read is
\* ordered after the timer's write only when the worker has locked the
\* mutex since, otherwise it may still see 0
WorkerTest(w, seen) ==
    /\ wpc[w] = "test"
    /\ seen => quit
    /\ (quit /\ wsync[w]) => seen
    /\ wpc' = [wpc EXCEPT ![w] = IF seen THEN "exit" ELSE "dispatch"]
    /\ UNCHANGED << total, quit, msleep, mutex, wsync, timerpc, gwork, notquit >>

\* q = skynet_context_message_dispatch(sm, q, weight): NULL when the global
\* queue is empty
WorkerDispatch(w) ==
    /\ wpc[w] = "dispatch"
    /\ IF gwork > 0
       THEN gwork' = gwork - 1 /\ wpc' = [wpc EXCEPT ![w] = "test"]
       ELSE gwork' = gwork /\ wpc' = [wpc EXCEPT ![w] = "lock"]
    /\ UNCHANGED << total, quit, msleep, mutex, wsync, timerpc, notquit >>

\* pthread_mutex_lock(&m->mutex), also when pthread_cond_wait returns
WorkerLock(w) ==
    /\ wpc[w] \in {"lock", "woken"}
    /\ mutex = 0
    /\ mutex' = w
    /\ wsync' = [wsync EXCEPT ![w] = quit]
    /\ wpc' = [wpc EXCEPT ![w] = IF wpc[w] = "lock" THEN "locked" ELSE "unlock"]
    /\ UNCHANGED << total, quit, msleep, timerpc, gwork, notquit >>

\* ++m->sleep; if (!m->quit) pthread_cond_wait(&m->cond, &m->mutex)
WorkerSleep(w) ==
    /\ wpc[w] = "locked"
    /\ msleep' = msleep + 1
    /\ IF quit
       THEN mutex' = mutex /\ wpc' = [wpc EXCEPT ![w] = "unlock"]
       ELSE mutex' = 0 /\ wpc' = [wpc EXCEPT ![w] = "wait"]
    /\ UNCHANGED << total, quit, wsync, timerpc, gwork, notquit >>

\* --m->sleep; pthread_mutex_unlock(&m->mutex)
WorkerUnlock(w) ==
    /\ wpc[w] = "unlock"
    /\ msleep' = msleep - 1
    /\ mutex' = 0
    /\ wpc' = [wpc EXCEPT ![w] = "test"]
    /\ UNCHANGED << total, quit, wsync, timerpc, gwork, notquit >>

WorkerStep(w) ==
    \/ \E seen \in BOOLEAN : WorkerTest(w, seen)
    \/ WorkerDispatch(w)
    \/ WorkerLock(w)
    \/ WorkerSleep(w)
    \/ WorkerUnlock(w)

\* thread_timer: CHECK_ABORT leaves the loop when no service is left
TimerCheckAbort ==
    /\ timerpc = "check"
    /\ timerpc' = IF total = 0 THEN "quit" ELSE "wakeup"
    /\ UNCHANGED << total, quit, msleep, mutex, wpc, wsync, gwork, notquit >>

\* mutant: the timer thread never signals the condition variable
TimerWakeup_NoSignal ==
    /\ timerpc = "wakeup"
    /\ timerpc' = "check"
    /\ UNCHANGED << total, quit, msleep, mutex, wpc, wsync, gwork, notquit >>

\* wakeup(m, m->count - 1): pthread_cond_signal when a worker sleeps; the
\* signal wakes one waiting worker, if there is one
TimerWakeup ==
    /\ timerpc = "wakeup"
    /\ timerpc' = "check"
    /\ IF msleep >= 1 /\ \E w \in Threads : wpc[w] = "wait"
       THEN \E w \in Threads : wpc[w] = "wait" /\ wpc' = [wpc EXCEPT ![w] = "woken"]
       ELSE wpc' = wpc
    /\ UNCHANGED << total, quit, msleep, mutex, wsync, gwork, notquit >>

\* mutant: quit is set without pthread_cond_broadcast
TimerQuit_NoBroadcast ==
    /\ timerpc = "quit"
    /\ mutex = 0
    /\ quit' = TRUE
    /\ timerpc' = "done"
    /\ UNCHANGED << total, msleep, mutex, wpc, wsync, gwork, notquit >>

\* thread_timer after the loop: under the mutex, m->quit = 1 and
\* pthread_cond_broadcast wakes every waiting worker
TimerQuit ==
    /\ timerpc = "quit"
    /\ mutex = 0
    /\ quit' = TRUE
    /\ wpc' = [w \in Threads |-> IF wpc[w] = "wait" THEN "woken" ELSE wpc[w]]
    /\ timerpc' = "done"
    /\ UNCHANGED << total, msleep, mutex, wsync, gwork, notquit >>

TimerStep == TimerCheckAbort \/ TimerWakeup \/ TimerQuit

NextQuit ==
    \/ ServiceGone
    \/ ServiceWork
    \/ \E w \in Threads : WorkerStep(w)
    \/ TimerStep

\* every thread that can run does run
SpecQuit ==
    /\ Init /\ [][NextQuit]_vars
    /\ WF_vars(TimerStep)
    /\ \A w \in Threads : WF_vars(WorkerStep(w))

\* ----------------------------------------------------------------- batches
\* skynet_mq_push: the message is stored and a mailbox that is not in the
\* global queue is linked at its tail
BatchPush(b) ==
    /\ bmq[b] < MaxLen
    /\ bmq' = [bmq EXCEPT ![b] = @ + 1]
    /\ IF bflag[b]
       THEN UNCHANGED << bflag, bG >>
       ELSE /\ bflag' = [bflag EXCEPT ![b] = TRUE]
            /\ bG' = skynet_globalmq_push(bG, b)
    /\ UNCHANGED << notbatch, bq, bpc, bi, bn, bL, mpos, mbox >>

\* a call of skynet_context_message_dispatch: q == NULL pops the global
\* queue (an empty one returns NULL); then int i, n = 1 (the values the
\* locals were left with when the last call returned)
BatchCall(t) ==
    /\ bpc[t] = "call"
    /\ IF bq[t] = 0
       THEN /\ bG # << >>
            /\ bq' = [bq EXCEPT ![t] = Head(bG)]
            /\ bG' = Tail(bG)
       ELSE UNCHANGED << bq, bG >>
    /\ bpc' = [bpc EXCEPT ![t] = "pop"]
    /\ UNCHANGED << notbatch, bmq, bflag, bi, bn, bL, mpos, mbox >>

\* else if (i == 0 && weight >= 0): only then is n computed
BatchAfterPop_AnyWeight(t) == IF bi[t] = 0 THEN "len" ELSE "handle"

BatchAfterPop(t) == IF bi[t] = 0 /\ Weight(t) >= 0 THEN "len" ELSE "handle"

\* skynet_mq_pop(q, &msg) in the batch loop: an empty mailbox clears
\* in_global and the call returns
BatchPop(t) ==
    /\ bpc[t] = "pop"
    /\ IF bmq[bq[t]] = 0
       THEN /\ bflag' = [bflag EXCEPT ![bq[t]] = FALSE]
            /\ bpc' = [bpc EXCEPT ![t] = "retpop"]
            /\ UNCHANGED << bmq, bL >>
       ELSE /\ bmq' = [bmq EXCEPT ![bq[t]] = @ - 1]
            /\ bL' = [bL EXCEPT ![t] = IF bi[t] = 0 THEN bmq[bq[t]] ELSE @]
            /\ bpc' = [bpc EXCEPT ![t] = BatchAfterPop(t)]
            /\ bflag' = bflag
    /\ mpos' = IF bmq[bq[t]] > 0 /\ mbox = bq[t] /\ mpos > 0 THEN mpos - 1 ELSE mpos
    /\ mbox' = IF bmq[bq[t]] > 0 /\ mbox = bq[t] /\ mpos = 1 THEN 0 ELSE mbox
    /\ UNCHANGED << notbatch, bG, bq, bi, bn >>

\* n = skynet_mq_length(q); n >>= weight
BatchLength(t) ==
    /\ bpc[t] = "len"
    /\ bn' = [bn EXCEPT ![t] = bmq[bq[t]] \div Pow2(Weight(t))]
    /\ bpc' = [bpc EXCEPT ![t] = "handle"]
    /\ UNCHANGED << notbatch, bmq, bflag, bG, bq, bi, bL, mpos, mbox >>

\* the message is handled (dispatch_message or skynet_free); i++, i < n
BatchHandle(t) ==
    /\ bpc[t] = "handle"
    /\ bi' = [bi EXCEPT ![t] = @ + 1]
    /\ bpc' = [bpc EXCEPT ![t] = IF bi[t] + 1 < bn[t] THEN "pop" ELSE "end"]
    /\ UNCHANGED << notbatch, bmq, bflag, bG, bq, bn, bL, mpos, mbox >>

\* after the batch: nq = skynet_globalmq_pop(); NULL returns q again
BatchEnd_KeepsBusy(t) ==
    /\ bpc[t] = "end"
    /\ bpc' = [bpc EXCEPT ![t] = "call"]
    /\ bi' = [bi EXCEPT ![t] = 0]
    /\ bn' = [bn EXCEPT ![t] = 1]
    /\ bL' = [bL EXCEPT ![t] = 0]
    /\ UNCHANGED << notbatch, bmq, bflag, bG, bq, mpos, mbox >>

BatchEnd(t) ==
    /\ bpc[t] = "end"
    /\ IF bG # << >>
       THEN /\ bG' = skynet_globalmq_push(Tail(bG), bq[t])
            /\ bq' = [bq EXCEPT ![t] = Head(bG)]
       ELSE UNCHANGED << bG, bq >>
    /\ bpc' = [bpc EXCEPT ![t] = "call"]
    /\ bi' = [bi EXCEPT ![t] = 0]
    /\ bn' = [bn EXCEPT ![t] = 1]
    /\ bL' = [bL EXCEPT ![t] = 0]
    /\ UNCHANGED << notbatch, bmq, bflag, mpos, mbox >>

\* return skynet_globalmq_pop() after an empty mailbox
BatchReturnPop(t) ==
    /\ bpc[t] = "retpop"
    /\ IF bG # << >>
       THEN /\ bq' = [bq EXCEPT ![t] = Head(bG)]
            /\ bG' = Tail(bG)
       ELSE /\ bq' = [bq EXCEPT ![t] = 0]
            /\ bG' = bG
    /\ bpc' = [bpc EXCEPT ![t] = "call"]
    /\ bi' = [bi EXCEPT ![t] = 0]
    /\ bn' = [bn EXCEPT ![t] = 1]
    /\ bL' = [bL EXCEPT ![t] = 0]
    /\ UNCHANGED << notbatch, bmq, bflag, mpos, mbox >>

\* one step of a worker thread
BatchStep(t) ==
    \/ BatchCall(t)
    \/ BatchPop(t)
    \/ BatchLength(t)
    \/ BatchHandle(t)
    \/ BatchEnd(t)
    \/ BatchReturnPop(t)

NextBatch ==
    \/ \E b \in 1..NBox : BatchPush(b)
    \/ \E t \in Threads : BatchCall(t)
    \/ \E t \in Threads : BatchPop(t)
    \/ \E t \in Threads : BatchLength(t)
    \/ \E t \in Threads : BatchHandle(t)
    \/ \E t \in Threads : BatchEnd(t)
    \/ \E t \in Threads : BatchReturnPop(t)

\* the worker threads keep running: thread_worker calls the dispatcher in a
\* loop and is woken by the timer thread when it sleeps
SpecBatch ==
    /\ Init
    /\ [][NextBatch]_vars
    /\ \A t \in Threads : WF_vars(BatchStep(t))

\* ------------------------------------------------------------------ wakeup
\* thread_worker with its dispatcher: the worker runs
\* skynet_context_message_dispatch
WakeRun(t) ==
    /\ wpc[t] = "dispatch"
    /\ BatchStep(t)

\* the dispatcher finds the global queue empty and returns NULL: the worker
\* goes to sleep
WakeEmpty(t) ==
    /\ wpc[t] = "dispatch"
    /\ bpc[t] = "call"
    /\ bq[t] = 0
    /\ bG = << >>
    /\ wpc' = [wpc EXCEPT ![t] = "lock"]
    /\ UNCHANGED << total, quit, msleep, mutex, wsync, timerpc, gwork, notquit >>

\* a message that waits in mailbox b, the p-th from the head, is followed
WakeFollow(b, p) ==
    /\ mpos = 0
    /\ p \in 1..bmq[b]
    /\ mpos' = p
    /\ mbox' = b
    /\ UNCHANGED << notbatch, bmq, bflag, bG, bq, bpc, bi, bn, bL >>

\* one step of worker thread t
WakeStep(t) ==
    \/ WorkerTest(t, FALSE)
    \/ WakeRun(t)
    \/ WakeEmpty(t)
    \/ WorkerLock(t)
    \/ WorkerSleep(t)
    \/ WorkerUnlock(t)

\* thread_timer while services live: CHECK_ABORT, wakeup, usleep
WakeTimer == TimerCheckAbort \/ TimerWakeup

NextWake ==
    \/ \E b \in 1..NWakeBox : BatchPush(b)
    \/ \E b \in 1..NWakeBox, p \in 1..MaxLen : WakeFollow(b, p)
    \/ \E t \in Threads : WorkerTest(t, FALSE)
    \/ \E t \in Threads : WakeRun(t)
    \/ \E t \in Threads : WakeEmpty(t)
    \/ \E t \in Threads : WorkerLock(t)
    \/ \E t \in Threads : WorkerSleep(t)
    \/ \E t \in Threads : WorkerUnlock(t)
    \/ TimerCheckAbort
    \/ TimerWakeup

\* the worker threads and the timer thread keep running
SpecWake ==
    /\ Init
    /\ [][NextWake]_vars
    /\ \A t \in Threads : WF_vars(WakeStep(t))
    /\ WF_vars(WakeTimer)

\* ----------------------------------------------------------------- monitor
\* no service was passed to skynet_context_endless
NoMark == [svc |-> 0, held |-> FALSE, incs |-> 0]

\* ATOM_FINC(&sm->version) on an int of VersionWrap values
version_inc(v) == (v + 1) % VersionWrap

\* skynet_monitor_check: the service to mark (0: none) and the new
\* check_version
skynet_monitor_check_NoMark(m) ==
    IF m.version = m.check_version
    THEN [mark |-> 0, check_version |-> m.check_version]
    ELSE [mark |-> 0, check_version |-> m.version]

skynet_monitor_check(m) ==
    IF m.version = m.check_version
    THEN [mark |-> m.destination, check_version |-> m.check_version]
    ELSE [mark |-> 0, check_version |-> m.version]

\* skynet_monitor_trigger(sm, msg.source, handle), first half: the worker
\* has grabbed service s and stores the destination
TriggerDestination(s) ==
    /\ hpc = "idle"
    /\ registered[s]
    /\ sm' = [sm EXCEPT !.destination = s]
    /\ hsvc' = s
    /\ hpc' = "trigger"
    /\ spanned' = FALSE
    /\ UNCHANGED << notmon, endless, registered, statpc, checks, marked, unseen, incs, lastmark >>

\* second half: ATOM_FINC(&sm->version); then dispatch_message runs the
\* handler
TriggerVersion ==
    /\ hpc = "trigger"
    /\ sm' = [sm EXCEPT !.version = version_inc(@)]
    /\ hpc' = "handler"
    /\ checks' = 0
    /\ marked' = FALSE
    /\ incs' = IF incs < VersionWrap THEN incs + 1 ELSE incs
    /\ UNCHANGED << notmon, endless, registered, hsvc, statpc, unseen, spanned, lastmark >>

\* the handler returns; skynet_monitor_trigger(sm, 0, 0), first half
HandlerDone ==
    /\ hpc = "handler"
    /\ statpc = "test"
    /\ sm' = [sm EXCEPT !.destination = 0]
    /\ hpc' = "untrigger"
    /\ checks' = 0
    /\ marked' = FALSE
    /\ UNCHANGED << notmon, endless, registered, hsvc, statpc, unseen, spanned, incs, lastmark >>

\* second half: ATOM_FINC(&sm->version)
UntriggerVersion ==
    /\ hpc = "untrigger"
    /\ sm' = [sm EXCEPT !.version = version_inc(@)]
    /\ hpc' = "idle"
    /\ hsvc' = 0
    /\ spanned' = FALSE
    /\ incs' = IF incs < VersionWrap THEN incs + 1 ELSE incs
    /\ UNCHANGED << notmon, endless, registered, statpc, checks, marked, unseen, lastmark >>

\* thread_monitor: skynet_monitor_check of the worker; an unchanged version
\* with a destination calls skynet_context_endless, which marks the service
\* only when skynet_handle_grab finds it
MonitorCheck ==
    /\ LET r == skynet_monitor_check(sm)
           hit == r.mark # 0 /\ registered[r.mark]
       IN /\ sm' = [sm EXCEPT !.check_version = r.check_version]
          /\ endless' = IF hit THEN [endless EXCEPT ![r.mark] = TRUE] ELSE endless
          /\ unseen' = IF hit THEN [unseen EXCEPT ![r.mark] = TRUE] ELSE unseen
          /\ marked' = IF hit /\ hpc = "handler" THEN TRUE ELSE marked
          /\ lastmark' = IF hit
                         THEN [svc |-> r.mark, held |-> spanned /\ hsvc = r.mark, incs |-> incs]
                         ELSE NoMark
    /\ spanned' = (hpc # "idle")
    /\ incs' = 0
    /\ checks' = IF hpc = "handler" /\ checks < 2 THEN checks + 1 ELSE checks
    /\ UNCHANGED << notmon, registered, hpc, hsvc, statpc >>

\* skynet_handle_retire of service s (KILL, EXIT or the abort): the handle
\* leaves the registry while a running handler keeps its context alive
MonitorRetire(s) ==
    /\ registered[s]
    /\ registered' = [registered EXCEPT ![s] = FALSE]
    /\ UNCHANGED << notmon, sm, endless, hpc, hsvc, statpc, checks, marked, unseen, spanned, incs, lastmark >>

\* cmd_stat "endless", called by the running handler: if (context->endless)
\* answers "1", else "0"
StatTest ==
    /\ hpc = "handler"
    /\ statpc = "test"
    /\ IF endless[hsvc]
       THEN /\ statpc' = "clear"
            /\ unseen' = [unseen EXCEPT ![hsvc] = FALSE]
       ELSE UNCHANGED << statpc, unseen >>
    /\ UNCHANGED << notmon, sm, endless, registered, hpc, hsvc, checks, marked, spanned, incs, lastmark >>

\* context->endless = false
StatClear ==
    /\ statpc = "clear"
    /\ endless' = [endless EXCEPT ![hsvc] = FALSE]
    /\ statpc' = "test"
    /\ UNCHANGED << notmon, sm, registered, hpc, hsvc, checks, marked, unseen, spanned, incs, lastmark >>

NextMonitor ==
    \/ \E s \in 1..NSvc : TriggerDestination(s)
    \/ TriggerVersion
    \/ HandlerDone
    \/ UntriggerVersion
    \/ MonitorCheck
    \/ \E s \in 1..NSvc : MonitorRetire(s)
    \/ StatTest
    \/ StatClear

SpecMonitor == Init /\ [][NextMonitor]_vars

\* -------------------------------------------------------------- reserve_id
MAX_SOCKET == Pow2(MAX_SOCKET_P)

\* HASH_ID(id): ((unsigned)id) % MAX_SOCKET
HASH_ID(id) == id % MAX_SOCKET

\* an int of IdBits bits after an addition (two's complement wrap)
IntWrap(x) ==
    LET m == Pow2(IdBits)
        u == x % m
    IN IF u >= m \div 2 THEN u - m ELSE u

\* x & 0x7fffffff for an int of IdBits bits: the sign bit is cleared
MaskSign(x) == x % Pow2(IdBits - 1)

AnyInvalid == \E h \in 0..(MAX_SOCKET - 1) : ss_slot[h].type = "INVALID"

\* reserve_id is called
ReserveCall(t) ==
    /\ vpc[t] = "idle"
    /\ vpc' = [vpc EXCEPT ![t] = "finc"]
    /\ vi' = [vi EXCEPT ![t] = 0]
    /\ vret' = [vret EXCEPT ![t] = -2]
    /\ vfree' = [vfree EXCEPT ![t] = AnyInvalid]
    /\ UNCHANGED << notreserve, ss_alloc, ss_slot, vid, inuse >>

\* the loop test i < MAX_SOCKET, then id = ATOM_FINC(&ss->alloc_id) + 1;
\* after the loop return -1
ReserveFinc(t) ==
    /\ vpc[t] = "finc"
    /\ IF vi[t] < MAX_SOCKET
       THEN /\ ss_alloc' = IntWrap(ss_alloc + 1)
            /\ vid' = [vid EXCEPT ![t] = IntWrap(ss_alloc + 1)]
            /\ vpc' = [vpc EXCEPT ![t] = IF IntWrap(ss_alloc + 1) < 0 THEN "fand" ELSE "load"]
            /\ UNCHANGED vret
       ELSE /\ vret' = [vret EXCEPT ![t] = -1]
            /\ vpc' = [vpc EXCEPT ![t] = "idle"]
            /\ UNCHANGED << ss_alloc, vid >>
    /\ UNCHANGED << notreserve, ss_slot, vi, vfree, inuse >>

\* id < 0: id = ATOM_FAND(&ss->alloc_id, 0x7fffffff) & 0x7fffffff
ReserveFand(t) ==
    /\ vpc[t] = "fand"
    /\ ss_alloc' = MaskSign(ss_alloc)
    /\ vid' = [vid EXCEPT ![t] = MaskSign(ss_alloc)]
    /\ vpc' = [vpc EXCEPT ![t] = "load"]
    /\ UNCHANGED << notreserve, ss_slot, vi, vret, vfree, inuse >>

\* type_invalid = ATOM_LOAD(&s->type): a slot in use ends the iteration
ReserveLoad(t) ==
    /\ vpc[t] = "load"
    /\ IF ss_slot[HASH_ID(vid[t])].type = "INVALID"
       THEN /\ vpc' = [vpc EXCEPT ![t] = "cas"]
            /\ vi' = vi
       ELSE /\ vpc' = [vpc EXCEPT ![t] = "finc"]
            /\ vi' = [vi EXCEPT ![t] = @ + 1]
    /\ UNCHANGED << notreserve, ss_alloc, ss_slot, vid, vret, vfree, inuse >>

\* mutant: the type is stored without comparing
ReserveCas_Store(t) ==
    /\ vpc[t] = "cas"
    /\ ss_slot' = [ss_slot EXCEPT ![HASH_ID(vid[t])] = [type |-> "RESERVE", id |-> vid[t]]]
    /\ inuse' = [inuse EXCEPT ![HASH_ID(vid[t])] = @ + 1]
    /\ vret' = [vret EXCEPT ![t] = vid[t]]
    /\ vpc' = [vpc EXCEPT ![t] = "idle"]
    /\ UNCHANGED << notreserve, ss_alloc, vi, vid, vfree >>

\* ATOM_CAS(&s->type, type_invalid, SOCKET_TYPE_RESERVE): success sets s->id
\* and returns id; failure is --i, and the loop's i++ follows
ReserveCas(t) ==
    /\ vpc[t] = "cas"
    /\ IF ss_slot[HASH_ID(vid[t])].type = "INVALID"
       THEN /\ ss_slot' = [ss_slot EXCEPT ![HASH_ID(vid[t])] = [type |-> "RESERVE", id |-> vid[t]]]
            /\ inuse' = [inuse EXCEPT ![HASH_ID(vid[t])] = @ + 1]
            /\ vret' = [vret EXCEPT ![t] = vid[t]]
            /\ vpc' = [vpc EXCEPT ![t] = "idle"]
       ELSE /\ vpc' = [vpc EXCEPT ![t] = "finc"]
            /\ UNCHANGED << ss_slot, inuse, vret >>
    /\ UNCHANGED << notreserve, ss_alloc, vi, vid, vfree >>

\* force_close (or the ATOM_STORE of a failed open) gives a slot back
ReserveFree(h) ==
    /\ ss_slot[h].type = "RESERVE"
    /\ ss_slot' = [ss_slot EXCEPT ![h].type = "INVALID"]
    /\ inuse' = [inuse EXCEPT ![h] = 0]
    /\ vfree' = [t \in Threads |-> vfree[t] \/ vpc[t] # "idle"]
    /\ UNCHANGED << notreserve, ss_alloc, vpc, vi, vid, vret >>

NextReserve ==
    \/ \E t \in Threads : ReserveCall(t)
    \/ \E t \in Threads : ReserveFinc(t)
    \/ \E t \in Threads : ReserveFand(t)
    \/ \E t \in Threads : ReserveLoad(t)
    \/ \E t \in Threads : ReserveCas(t)
    \/ \E h \in 0..(MAX_SOCKET - 1) : ReserveFree(h)

SpecReserve == Init /\ [][NextReserve]_vars

\* ------------------------------------------------------------ session ids
\* one allocation of a session id for the service, by way of via
SessionAlloc(via) ==
    /\ sover < MaxOver \/ session_id < SESSION_MAX
    /\ \E r \in newsession_results(session_id) :
          /\ session_id' = r.session_id
          /\ slast' = r.ret
    /\ sprev' = slast
    /\ svia' = via
    /\ sover' = IF session_id = SESSION_MAX THEN sover + 1 ELSE sover
    /\ UNCHANGED notsession

\* cmd_timeout: the TIMEOUT command allocates the session of the timer
cmd_timeout == SessionAlloc("timeout")

\* _filter_args: a send tagged PTYPE_TAG_ALLOCSESSION allocates its session
FilterArgsAlloc == SessionAlloc("send")

NextSession == cmd_timeout \/ FilterArgsAlloc

SpecSession == Init /\ [][NextSession]_vars

\* ------------------------------------------------------- queue spinlocks
Lockers == 1..NLockers
LockBoxes == 1..NLockBoxes

\* the operations that take the lock of a mailbox first
MailboxOps == {"skynet_mq_push", "skynet_mq_mark_release", "skynet_mq_release",
               "skynet_mq_pop", "skynet_mq_length"}

\* the operations that take the lock of the global queue only
GlobalOps == {"skynet_globalmq_push", "skynet_globalmq_pop"}

\* thread t holds the lock of some mailbox
HoldsMailbox(t) == \E q \in LockBoxes : qlock[q] = t

\* mutant: skynet_mq_release calls _drop_queue before SPIN_UNLOCK(q)
release_next_DropLocked(release) == IF release THEN "droplock" ELSE "lockg"

\* skynet_mq_release after SPIN_LOCK(q): a released mailbox is unlocked and
\* then dropped, another is pushed to the global queue under its lock
release_next(release) == IF release THEN "unlockq" ELSE "lockg"

\* thread t calls operation op on mailbox q (0 for the global queue alone)
LockCall(t, op, q) ==
    /\ lpc[t] = "idle"
    /\ IF op \in GlobalOps
       THEN q = 0
       ELSE /\ q \in LockBoxes
            /\ ~lfreed[q]
            /\ op # "skynet_mq_release" => ~lrelease[q]
            /\ op = "skynet_mq_release" => \A u \in Lockers : lop[u] # "skynet_mq_release" \/ lq[u] # q
    /\ lop' = [lop EXCEPT ![t] = op]
    /\ lq' = [lq EXCEPT ![t] = q]
    /\ lpc' = [lpc EXCEPT ![t] = IF op \in GlobalOps THEN "lockg" ELSE "lockq"]
    /\ UNCHANGED << notlock, qlock, glock, ldrop, lglobal, lrelease, lfreed, lfirst >>

\* SPIN_LOCK(q) of a mailbox
LockMailbox(t) ==
    /\ lpc[t] = "lockq"
    /\ qlock[lq[t]] = 0
    /\ qlock' = [qlock EXCEPT ![lq[t]] = t]
    /\ lfirst' = [lfirst EXCEPT ![t] = IF glock = t THEN @ ELSE "mailbox"]
    /\ lpc' = [lpc EXCEPT ![t] = "body"]
    /\ UNCHANGED << notlock, glock, lop, lq, ldrop, lglobal, lrelease, lfreed >>

\* what the operation does under the lock of its mailbox, up to its next
\* lock or unlock
LockBody(t) ==
    /\ lpc[t] = "body"
    /\ LET q == lq[t]
       IN CASE lop[t] = "skynet_mq_push" ->
                 /\ lglobal' = [lglobal EXCEPT ![q] = TRUE]
                 /\ lpc' = [lpc EXCEPT ![t] = IF lglobal[q] THEN "unlockq" ELSE "lockg"]
                 /\ UNCHANGED lrelease
            [] lop[t] = "skynet_mq_mark_release" ->
                 /\ lrelease' = [lrelease EXCEPT ![q] = TRUE]
                 /\ lpc' = [lpc EXCEPT ![t] = IF lglobal[q] THEN "unlockq" ELSE "lockg"]
                 /\ UNCHANGED lglobal
            [] lop[t] = "skynet_mq_release" ->
                 /\ lpc' = [lpc EXCEPT ![t] = release_next(lrelease[q])]
                 /\ UNCHANGED << lglobal, lrelease >>
            [] lop[t] = "skynet_mq_pop" ->
                 /\ \E empty \in BOOLEAN :
                       lglobal' = [lglobal EXCEPT ![q] = IF empty THEN FALSE ELSE @]
                 /\ lpc' = [lpc EXCEPT ![t] = "unlockq"]
                 /\ UNCHANGED lrelease
            [] OTHER ->
                 /\ lpc' = [lpc EXCEPT ![t] = "unlockq"]
                 /\ UNCHANGED << lglobal, lrelease >>
    /\ UNCHANGED << notlock, qlock, glock, lop, lq, ldrop, lfreed, lfirst >>

\* SPIN_LOCK(q) of the global queue, in skynet_globalmq_push and
\* skynet_globalmq_pop
LockGlobal(t) ==
    /\ lpc[t] = "lockg"
    /\ glock = 0
    /\ glock' = t
    /\ lfirst' = [lfirst EXCEPT ![t] = IF HoldsMailbox(t) THEN @ ELSE "global"]
    /\ lpc' = [lpc EXCEPT ![t] = "unlockg"]
    /\ UNCHANGED << notlock, qlock, lop, lq, ldrop, lglobal, lrelease, lfreed >>

\* SPIN_UNLOCK(q) of the global queue
UnlockGlobal(t) ==
    /\ lpc[t] = "unlockg"
    /\ glock' = 0
    /\ IF lop[t] \in GlobalOps
       THEN /\ lpc' = [lpc EXCEPT ![t] = "idle"]
            /\ lop' = [lop EXCEPT ![t] = "none"]
            /\ lfirst' = [lfirst EXCEPT ![t] = "none"]
       ELSE /\ lpc' = [lpc EXCEPT ![t] = "unlockq"]
            /\ UNCHANGED << lop, lfirst >>
    /\ UNCHANGED << notlock, qlock, lq, ldrop, lglobal, lrelease, lfreed >>

\* SPIN_UNLOCK(q) of a mailbox: the operation returns, to _drop_queue when
\* it was the push of drop_message; skynet_mq_release of a released
\* mailbox goes on to _drop_queue
UnlockMailbox(t) ==
    /\ lpc[t] = "unlockq"
    /\ qlock' = [qlock EXCEPT ![lq[t]] = 0]
    /\ lfirst' = [lfirst EXCEPT ![t] = "none"]
    /\ IF lop[t] = "skynet_mq_release" /\ lrelease[lq[t]]
       THEN /\ lpc' = [lpc EXCEPT ![t] = "droplock"]
            /\ ldrop' = [ldrop EXCEPT ![t] = lq[t]]
            /\ UNCHANGED << lop, lq >>
       ELSE IF ldrop[t] # 0
       THEN /\ lpc' = [lpc EXCEPT ![t] = "droplock"]
            /\ lop' = [lop EXCEPT ![t] = "skynet_mq_release"]
            /\ lq' = [lq EXCEPT ![t] = ldrop[t]]
            /\ UNCHANGED ldrop
       ELSE /\ lpc' = [lpc EXCEPT ![t] = "idle"]
            /\ lop' = [lop EXCEPT ![t] = "none"]
            /\ lq' = [lq EXCEPT ![t] = 0]
            /\ UNCHANGED ldrop
    /\ UNCHANGED << notlock, glock, lglobal, lrelease, lfreed >>

\* _drop_queue: SPIN_LOCK(q) of skynet_mq_pop
DropLock(t) ==
    /\ lpc[t] = "droplock"
    /\ qlock[lq[t]] = 0
    /\ qlock' = [qlock EXCEPT ![lq[t]] = t]
    /\ lfirst' = [lfirst EXCEPT ![t] = IF glock = t THEN @ ELSE "mailbox"]
    /\ ldrop' = [ldrop EXCEPT ![t] = lq[t]]
    /\ lpc' = [lpc EXCEPT ![t] = "droppop"]
    /\ UNCHANGED << notlock, glock, lop, lq, lglobal, lrelease, lfreed >>

\* _drop_queue: skynet_mq_pop finds a message or none and unlocks
DropQueuePop(t) ==
    /\ lpc[t] = "droppop"
    /\ qlock[lq[t]] = t
    /\ qlock' = [qlock EXCEPT ![lq[t]] = 0]
    /\ lfirst' = [lfirst EXCEPT ![t] = "none"]
    /\ \E empty \in BOOLEAN :
          /\ lglobal' = [lglobal EXCEPT ![lq[t]] = IF empty THEN FALSE ELSE @]
          /\ lpc' = [lpc EXCEPT ![t] = IF empty THEN "free" ELSE "dropfn"]
    /\ UNCHANGED << notlock, glock, lop, lq, ldrop, lrelease, lfreed >>

\* drop_message: skynet_send of the error to the source of the message,
\* which is pushed to the mailbox of a live source and dropped otherwise
DropFn(t) ==
    /\ lpc[t] = "dropfn"
    /\ \/ /\ lpc' = [lpc EXCEPT ![t] = "droplock"]
          /\ UNCHANGED << lop, lq >>
       \/ \E q \in LockBoxes :
             /\ q # ldrop[t]
             /\ ~lfreed[q]
             /\ ~lrelease[q]
             /\ lop' = [lop EXCEPT ![t] = "skynet_mq_push"]
             /\ lq' = [lq EXCEPT ![t] = q]
             /\ lpc' = [lpc EXCEPT ![t] = "lockq"]
    /\ UNCHANGED << notlock, qlock, glock, ldrop, lglobal, lrelease, lfreed, lfirst >>

\* _release: SPIN_DESTROY and free, once no other thread is in an operation
\* on the mailbox (the context that owned it is gone)
LockFree(t) ==
    /\ lpc[t] = "free"
    /\ \A u \in Lockers \ {t} : lq[u] # lq[t]
    /\ lfreed' = [lfreed EXCEPT ![lq[t]] = TRUE]
    /\ lpc' = [lpc EXCEPT ![t] = "idle"]
    /\ lop' = [lop EXCEPT ![t] = "none"]
    /\ lq' = [lq EXCEPT ![t] = 0]
    /\ ldrop' = [ldrop EXCEPT ![t] = 0]
    /\ UNCHANGED << notlock, qlock, glock, lglobal, lrelease, lfirst >>

\* skynet_mq_create: a new mailbox, in_global set, release clear
LockCreate(q) ==
    /\ lfreed[q]
    /\ lfreed' = [lfreed EXCEPT ![q] = FALSE]
    /\ lglobal' = [lglobal EXCEPT ![q] = TRUE]
    /\ lrelease' = [lrelease EXCEPT ![q] = FALSE]
    /\ UNCHANGED << notlock, qlock, glock, lpc, lop, lq, ldrop, lfirst >>

NextLock ==
    \/ \E t \in Lockers, op \in MailboxOps \cup GlobalOps, q \in 0..NLockBoxes : LockCall(t, op, q)
    \/ \E t \in Lockers : LockMailbox(t)
    \/ \E t \in Lockers : LockBody(t)
    \/ \E t \in Lockers : LockGlobal(t)
    \/ \E t \in Lockers : UnlockGlobal(t)
    \/ \E t \in Lockers : UnlockMailbox(t)
    \/ \E t \in Lockers : DropLock(t)
    \/ \E t \in Lockers : DropQueuePop(t)
    \/ \E t \in Lockers : DropFn(t)
    \/ \E t \in Lockers : LockFree(t)
    \/ \E q \in LockBoxes : LockCreate(q)

SpecLock == Init /\ [][NextLock]_vars

\* ---------------------------------------------------------- write buffers
\* One socket is followed from new_fd to force_close; its slot is not used
\* again, so a request always names the socket in the slot.  A write buffer
\* is [id, sz, off, low]: the call that sent it, tmp->sz, tmp->ptr -
\* tmp->buffer, and whether the call was socket_server_send_lowpriority.
\* dw is << >> or << [id, sz, off, low] >>: dw_buffer with dw_size - dw_offset
\* and dw_offset.  warn_size is left out: wb_size stays far below
\* WARNING_SIZE.
Senders == 1..NSenders

RECURSIVE SumSz(_)
\* the bytes not yet written of the buffers of a list
SumSz(list) == IF list = << >> THEN 0 ELSE Head(list).sz + SumSz(Tail(list))

\* the next n bytes of buffer b, as << call, position >>
BufBytes(b, n) == [i \in 1..n |-> << b.id, b.off + i >>]

\* of the bytes written, those of calls of socket_server_send
HighBytes(b, n) == IF b.low THEN << >> ELSE BufBytes(b, n)

RECURSIVE send_list_tcp(_, _)
\* send_list_tcp while write() accepts n more bytes: whole buffers are
\* written and freed, a buffer written in part keeps the rest
send_list_tcp(list, n) ==
    IF list = << >> \/ n = 0 THEN [list |-> list, wrote |-> << >>]
    ELSE LET tmp == Head(list)
         IN IF n >= tmp.sz
            THEN LET r == send_list_tcp(Tail(list), n - tmp.sz)
                 IN [list |-> r.list, wrote |-> HighBytes(tmp, tmp.sz) \o r.wrote]
            ELSE [list |-> << [tmp EXCEPT !.sz = @ - n, !.off = @ + n] >> \o Tail(list),
                  wrote |-> HighBytes(tmp, n)]

\* send_list_udp while sendto() takes n more datagrams: each is sent whole
\* and freed
send_list_udp(list, n) ==
    IF n >= Len(list) THEN [list |-> << >>, wrote |-> << >>]
    ELSE [list |-> SubSeq(list, n + 1, Len(list)), wrote |-> << >>]

\* send_list
wb_send_list(s, list, n) ==
    IF s.protocol = "TCP" THEN send_list_tcp(list, n) ELSE send_list_udp(list, n)

\* what n counts in a list: bytes for TCP, datagrams for UDP
ListUnits(s, list) == IF s.protocol = "TCP" THEN SumSz(list) ELSE Len(list)

\* list_uncomplete
wb_list_uncomplete(list) == list # << >> /\ Head(list).off # 0

\* send_buffer_empty
wb_send_buffer_empty(s) == s.high = << >> /\ s.low = << >>

\* nomore_sending_data
wb_nomore_sending_data(s) ==
    \/ wb_send_buffer_empty(s) /\ s.dw = << >> /\ s.sending = 0
    \/ s.type = "HALFCLOSE_WRITE"

\* mutant: a direct write does not look at the data still to be sent
can_direct_write_Eager(s) == s.type = "CONNECTED"

\* can_direct_write (udpconnecting is 0 for a connected socket)
can_direct_write(s) == wb_nomore_sending_data(s) /\ s.type = "CONNECTED"

\* force_close: both lists and dw_buffer are freed, the slot is invalid
wb_force_close(s) ==
    IF s.type = "INVALID" THEN s
    ELSE [s EXCEPT !.high = << >>, !.low = << >>, !.dw = << >>,
                   !.type = "INVALID", !.writing = FALSE]

\* close_write, after write() failed
wb_close_write(s) ==
    IF s.closing \/ s.type = "HALFCLOSE_READ" THEN wb_force_close(s)
    ELSE IF s.type = "HALFCLOSE_WRITE" THEN s
    ELSE [s EXCEPT !.type = "HALFCLOSE_WRITE", !.writing = FALSE]

\* drop_udp: the head of the list is freed unsent
drop_udp(s, high) ==
    IF high THEN [s EXCEPT !.wb_size = @ - Head(s.high).sz, !.high = Tail(@)]
    ELSE [s EXCEPT !.wb_size = @ - Head(s.low).sz, !.low = Tail(@)]

\* mutant: the direct-write buffer is put in front of the high list without
\* being counted in wb_size
dw_insert_NoCount(s) ==
    IF s.dw = << >> THEN s
    ELSE [s EXCEPT !.high = s.dw \o @, !.dw = << >>]

\* send_buffer: the direct-write buffer is put in front of the high list
dw_insert(s) ==
    IF s.dw = << >> THEN s
    ELSE [s EXCEPT !.high = s.dw \o @, !.wb_size = @ + s.dw[1].sz, !.dw = << >>]

\* raise_uncomplete
wb_raise_uncomplete(s) == [s EXCEPT !.high = << Head(s.low) >>, !.low = Tail(@)]

\* send_buffer_, step 4: both lists are empty; assert, then force_close of
\* a closing socket or write events off
wb_send_buffer_done(s) ==
    [s |-> IF s.closing THEN wb_force_close(s) ELSE [s EXCEPT !.writing = FALSE],
     failed |-> ~(wb_send_buffer_empty(s) /\ s.wb_size = 0)]

\* send_list of the high (inhigh) or the low list: n units are taken; when the
\* list is not empty then and its head untouched, the next write() or
\* sendto() fails (e) or would block.  A failure closes the write side of
\* a TCP socket and ends send_buffer_ (ret "err"); it drops the datagram of
\* a UDP socket
wb_write_list(s, inhigh, n, e) ==
    LET list == IF inhigh THEN s.high ELSE s.low
        r == wb_send_list(s, list, n)
        t == IF inhigh THEN [s EXCEPT !.high = r.list, !.wb_size = @ - (SumSz(list) - SumSz(r.list))]
             ELSE [s EXCEPT !.low = r.list, !.wb_size = @ - (SumSz(list) - SumSz(r.list))]
        untouched == r.list # << >> /\ Head(r.list) = list[Len(list) - Len(r.list) + 1]
    IN IF untouched /\ e
       THEN IF s.protocol = "TCP"
            THEN [s |-> wb_close_write(t), wrote |-> r.wrote, ret |-> "err"]
            ELSE [s |-> drop_udp(t, inhigh), wrote |-> r.wrote, ret |-> "-1"]
       ELSE [s |-> t, wrote |-> r.wrote, ret |-> "-1"]

\* send_buffer_: the high list, then the low list when the high list is
\* empty; a part-sent head of the low list is raised; both lists empty is
\* step 4
send_buffer_(s, n1, e1, n2, e2) ==
    LET a == wb_write_list(s, TRUE, n1, e1)
    IN IF a.ret = "err" \/ a.s.high # << >>
       THEN [s |-> a.s, failed |-> FALSE, wrote |-> a.wrote]
       ELSE IF a.s.low = << >>
       THEN [s |-> wb_send_buffer_done(a.s).s, failed |-> wb_send_buffer_done(a.s).failed,
             wrote |-> a.wrote]
       ELSE LET b == wb_write_list(a.s, FALSE, n2, e2)
                wrote == a.wrote \o b.wrote
            IN IF b.ret = "err" THEN [s |-> b.s, failed |-> FALSE, wrote |-> wrote]
               ELSE IF wb_list_uncomplete(b.s.low)
               THEN [s |-> wb_raise_uncomplete(b.s), failed |-> FALSE, wrote |-> wrote]
               ELSE IF b.s.low # << >> THEN [s |-> b.s, failed |-> FALSE, wrote |-> wrote]
               ELSE [s |-> wb_send_buffer_done(b.s).s,
                     failed |-> wb_send_buffer_done(b.s).failed, wrote |-> wrote]

\* send_buffer under the lock: dw_buffer goes to the head of the high list,
\* then send_buffer_
wb_send_buffer(s, n1, e1, n2, e2) == send_buffer_(dw_insert(s), n1, e1, n2, e2)

\* send_socket: the request of a 'D' or 'P' is dropped, sent at once (UDP,
\* sent) or appended; then dec_sending_ref
wb_send_socket(s, b, sent) ==
    LET dec == IF s.protocol = "TCP" THEN [s EXCEPT !.sending = @ - 1] ELSE s
        app(inhigh) == IF inhigh THEN [dec EXCEPT !.high = @ \o << b >>, !.wb_size = @ + b.sz]
                   ELSE [dec EXCEPT !.low = @ \o << b >>, !.wb_size = @ + b.sz]
    IN IF s.type \in {"INVALID", "HALFCLOSE_WRITE"} \/ s.closing THEN dec
       ELSE IF wb_send_buffer_empty(s)
       THEN IF s.protocol = "TCP" THEN [app(TRUE) EXCEPT !.writing = TRUE]
            ELSE IF sent THEN dec
            ELSE [app(~b.low) EXCEPT !.writing = TRUE]
       ELSE app(~b.low)

\* close_socket
wb_close_socket(s, shutdown) ==
    IF s.type = "INVALID" THEN s
    ELSE IF shutdown \/ wb_nomore_sending_data(s) THEN wb_force_close(s)
    ELSE [s EXCEPT !.closing = TRUE, !.type = "HALFCLOSE_READ"]

\* the history of the bytes written: a step that wrote bytes of
\* high-priority calls moves the last one before it to oprev
Wrote(bytes) ==
    IF bytes = << >> THEN UNCHANGED << oprev, ostep >>
    ELSE /\ oprev' = IF ostep = << >> THEN oprev ELSE ostep[Len(ostep)]
         /\ ostep' = bytes

\* new_fd: a connected TCP or UDP socket takes the slot
WriteOpen(protocol) ==
    /\ osock.type = "INVALID"
    /\ ocalls = 0
    /\ ~oclosed
    /\ osock' = [osock EXCEPT !.type = "CONNECTED", !.protocol = protocol]
    /\ UNCHANGED << notwrite, olock, opipe, opc, ocur, ocalls, oprev, ostep, oassert,
                    ocallers, iopc, oclosed >>

\* socket_server_send (low = FALSE) and socket_server_send_lowpriority of
\* sz bytes by thread t, up to the trylock or the request
WriteCall(t, sz, low) ==
    /\ opc[t] = "idle"
    /\ ocalls < MaxCalls
    /\ osock.type # "INVALID" \/ oclosed
    /\ ocalls' = ocalls + 1
    /\ ocallers' = ocallers \cup {t}
    /\ LET b == [id |-> ocalls + 1, sz |-> sz, off |-> 0, low |-> low]
       IN IF osock.type = "INVALID" \/ (~low /\ osock.closing)
          THEN UNCHANGED << osock, olock, opipe, opc, ocur >>
          ELSE IF ~low /\ can_direct_write(osock) /\ olock = 0
          THEN /\ olock' = t
               /\ opc' = [opc EXCEPT ![t] = "locked"]
               /\ ocur' = [ocur EXCEPT ![t] = << b >>]
               /\ UNCHANGED << osock, opipe >>
          ELSE /\ osock' = IF osock.protocol = "TCP"
                           THEN [osock EXCEPT !.sending = @ + 1] ELSE osock
               /\ opipe' = Append(opipe, [cmd |-> IF low THEN "P" ELSE "D", buf |-> << b >>])
               /\ UNCHANGED << olock, opc, ocur >>
    /\ UNCHANGED << notwrite, oprev, ostep, oassert, iopc, oclosed >>

\* socket_server_send under the lock: can_direct_write again, then write()
\* or sendto() of n bytes (a failure counts as 0; a UDP socket without an
\* address frees the buffer, as a datagram sent does); what is left is
\* staged in dw_buffer
WriteDirect(t) ==
    /\ opc[t] = "locked"
    /\ LET b == ocur[t][1]
       IN IF ~can_direct_write(osock)
          THEN /\ osock' = IF osock.protocol = "TCP"
                           THEN [osock EXCEPT !.sending = @ + 1] ELSE osock
               /\ opipe' = Append(opipe, [cmd |-> "D", buf |-> << b >>])
               /\ opc' = [opc EXCEPT ![t] = "idle"]
               /\ UNCHANGED << oprev, ostep >>
          ELSE \E n \in (IF osock.protocol = "TCP" THEN 0..b.sz ELSE {0, b.sz}) :
                  /\ osock' = IF n = b.sz THEN osock
                              ELSE [osock EXCEPT !.dw = << [b EXCEPT !.sz = @ - n, !.off = n] >>]
                  /\ opc' = [opc EXCEPT ![t] = IF n = b.sz THEN "idle" ELSE "trigger"]
                  /\ IF osock.protocol = "TCP" THEN Wrote(BufBytes(b, n))
                     ELSE UNCHANGED << oprev, ostep >>
                  /\ UNCHANGED opipe
    /\ olock' = 0
    /\ ocur' = [ocur EXCEPT ![t] = << >>]
    /\ UNCHANGED << notwrite, ocalls, oassert, ocallers, iopc, oclosed >>

\* socket_server_send after the unlock: send_request 'W'
WriteTrigger(t) ==
    /\ opc[t] = "trigger"
    /\ opipe' = Append(opipe, [cmd |-> "W", buf |-> << >>])
    /\ opc' = [opc EXCEPT ![t] = "idle"]
    /\ UNCHANGED << notwrite, osock, olock, ocur, ocalls, oprev, ostep, oassert,
                    ocallers, iopc, oclosed >>

\* socket_server_close and socket_server_shutdown: send_request 'K'
WriteClose(shutdown) ==
    /\ ~oclosed
    /\ osock.type # "INVALID"
    /\ oclosed' = TRUE
    /\ opipe' = Append(opipe, [cmd |-> "K", buf |-> << >>, shutdown |-> shutdown])
    /\ UNCHANGED << notwrite, osock, olock, opc, ocur, ocalls, oprev, ostep, oassert,
                    ocallers, iopc >>

\* ctrl_cmd: the I/O thread takes the oldest request; force_close waits for
\* the lock
WriteCtrl ==
    /\ iopc = "poll"
    /\ opipe # << >>
    /\ LET r == Head(opipe)
       IN /\ r.cmd = "K" => olock = 0
          /\ CASE r.cmd = "W" ->
                    osock' = IF osock.type = "INVALID" THEN osock
                             ELSE [osock EXCEPT !.writing = TRUE]
               [] r.cmd = "K" -> osock' = wb_close_socket(osock, r.shutdown)
               [] OTHER -> \E sent \in BOOLEAN : osock' = wb_send_socket(osock, r.buf[1], sent)
    /\ opipe' = Tail(opipe)
    /\ UNCHANGED << notwrite, olock, opc, ocur, ocalls, oprev, ostep, oassert,
                    ocallers, iopc, oclosed >>

\* the socket is writable: send_buffer takes the lock with socket_trylock
\* (when a direct write holds it, send_buffer returns and nothing changes)
WriteEventLock ==
    /\ iopc = "poll"
    /\ osock.writing
    /\ osock.type # "INVALID"
    /\ olock = 0
    /\ olock' = -1
    /\ iopc' = "send_buffer"
    /\ UNCHANGED << notwrite, osock, opipe, opc, ocur, ocalls, oprev, ostep, oassert,
                    ocallers, oclosed >>

\* send_buffer under the lock, and socket_unlock
WriteEvent ==
    /\ iopc = "send_buffer"
    /\ LET s1 == dw_insert(osock)
       IN \E n1 \in 0..ListUnits(s1, s1.high), e1 \in BOOLEAN,
             n2 \in 0..ListUnits(s1, s1.low), e2 \in BOOLEAN :
             LET r == wb_send_buffer(osock, n1, e1, n2, e2)
             IN /\ osock' = r.s
                /\ oassert' = (oassert \/ r.failed)
                /\ Wrote(r.wrote)
    /\ olock' = 0
    /\ iopc' = "poll"
    /\ UNCHANGED << notwrite, opipe, opc, ocur, ocalls, ocallers, oclosed >>

NextWrite ==
    \/ \E protocol \in {"TCP", "UDP"} : WriteOpen(protocol)
    \/ \E t \in Senders, sz \in 1..MaxSz, low \in BOOLEAN : WriteCall(t, sz, low)
    \/ \E t \in Senders : WriteDirect(t)
    \/ \E t \in Senders : WriteTrigger(t)
    \/ \E shutdown \in BOOLEAN : WriteClose(shutdown)
    \/ WriteCtrl
    \/ WriteEventLock
    \/ WriteEvent

SpecWrite == Init /\ [][NextWrite]_vars

\* ----------------------------------------------------------- socket server
\* socket_server_poll returns ret for socket id from handler op (ret "none":
\* the loop goes on); SOCKET_MORE is returned as SOCKET_DATA
PollReturns(op, ret, id) ==
    LET r == IF ret = "MORE" THEN "DATA" ELSE ret
    IN /\ last' = [op |-> op, ret |-> r, id |-> id, turn |-> 1 - last.turn]
       /\ nopen' = IF r = "OPEN" THEN [nopen EXCEPT ![id] = @ + 1] ELSE nopen
       /\ nclose' = IF r = "CLOSE" THEN [nclose EXCEPT ![id] = IF @ = 0 THEN 1 ELSE 2]
                    ELSE nclose
       /\ late' = IF r = "DATA" /\ nclose[id] > 0 THEN [late EXCEPT ![id] = TRUE] ELSE late

\* clear_closed_event after a control command returned ret for id, with the
\* slot now s
clear_closed_event(s, ret, id) ==
    IF ret \in {"CLOSE", "ERR"} /\ socket_invalid(s, id) /\ s.id = id
    THEN NoEv
    ELSE ev

\* the end of a control command: the slot becomes s, poll returns ret
CtrlReturns(op, s, ret, id) ==
    /\ sock' = s
    /\ ev' = clear_closed_event(s, ret, id)
    /\ PollReturns(op, ret, id)
    /\ UNCHANGED << alloc_id, checkctrl, sabort, notsocket >>

\* requests for an id are written to the pipe after the request that
\* creates its socket
Created(id) == id \in 1..alloc_id /\ ~(sock.id = id /\ sock.type = "RESERVE")

\* reserve_id (socket_server_listen, socket_server_connect and
\* socket_server_bind on a worker thread): the slot is free
ReserveId ==
    /\ ~sabort
    /\ sock.type = "INVALID"
    /\ alloc_id < NIds
    /\ alloc_id' = alloc_id + 1
    /\ sock' = [sock EXCEPT !.type = "RESERVE", !.id = alloc_id + 1]
    /\ UNCHANGED << checkctrl, ev, pipe, nopen, nclose, late, last, sabort, notsocket >>

\* socket_server_send and socket_server_send_lowpriority on a worker
\* thread: a direct write that is cut short leaves dw_buffer and a 'W'
\* request, otherwise the buffer travels in a 'D' or 'P' request
ServerSend(id, low, direct) ==
    /\ ~sabort
    /\ Created(id)
    /\ ~socket_invalid(sock, id)
    /\ low \/ ~sock.closing
    /\ sock.high + sock.low + pipe.d[id] + (IF sock.dw THEN 1 ELSE 0) < MaxBuf
    /\ IF ~low /\ direct /\ nomore_sending_data(sock) /\ sock.type = "CONNECTED"
       THEN /\ sock' = [sock EXCEPT !.dw = TRUE,
                                    !.torn = @ \/ sock.hpart # "no" \/ sock.lpart]
            /\ pipe' = [pipe EXCEPT !.w[id] = TRUE]
       ELSE /\ sock' = [sock EXCEPT !.sending = @ + 1]
            /\ pipe' = [pipe EXCEPT !.d[id] = @ + 1]
    /\ UNCHANGED << alloc_id, checkctrl, ev, nopen, nclose, late, last, sabort, notsocket >>

\* 'L': listen_socket
CmdListen(id, ok) ==
    /\ ~sabort /\ checkctrl
    /\ sock.id = id /\ sock.type = "RESERVE"
    /\ UNCHANGED pipe
    /\ IF ok
       THEN CtrlReturns("listen", new_fd(sock, id, "PLISTEN", FALSE), "OPEN", id)
       ELSE CtrlReturns("listen", [sock EXCEPT !.type = "INVALID"], "ERR", id)

\* 'O': open_socket; how is "fail", "done" (connect returned 0) or "wait"
CmdOpen(id, how) ==
    /\ ~sabort /\ checkctrl
    /\ sock.id = id /\ sock.type = "RESERVE"
    /\ UNCHANGED pipe
    /\ CASE how = "fail" -> CtrlReturns("open", [sock EXCEPT !.type = "INVALID"], "ERR", id)
         [] how = "done" -> CtrlReturns("open", new_fd(sock, id, "CONNECTED", TRUE), "OPEN", id)
         [] OTHER -> CtrlReturns("open", [new_fd(sock, id, "CONNECTING", TRUE) EXCEPT !.writing = TRUE],
                                 "none", id)

\* 'B': bind_socket
CmdBind(id) ==
    /\ ~sabort /\ checkctrl
    /\ sock.id = id /\ sock.type = "RESERVE"
    /\ UNCHANGED pipe
    /\ CtrlReturns("bind", new_fd(sock, id, "BIND", TRUE), "OPEN", id)

\* 'R': resume_socket
CmdResume(id) ==
    /\ ~sabort /\ checkctrl
    /\ Created(id)
    /\ nopen[id] < MaxOpen
    /\ UNCHANGED pipe
    /\ IF socket_invalid(sock, id) \/ sock.type = "HALFCLOSE_READ"
       THEN CtrlReturns("resume", sock, "ERR", id)
       ELSE LET s == [sock EXCEPT !.reading = TRUE]
            IN CASE sock.type = "PACCEPT" ->
                        CtrlReturns("resume", [s EXCEPT !.type = "CONNECTED"], "OPEN", id)
                 [] sock.type = "PLISTEN" ->
                        CtrlReturns("resume", [s EXCEPT !.type = "LISTEN"], "OPEN", id)
                 [] sock.type = "CONNECTED" -> CtrlReturns("resume", s, "OPEN", id)
                 [] OTHER -> CtrlReturns("resume", s, "none", id)

\* 'S': pause_socket
CmdPause(id) ==
    /\ ~sabort /\ checkctrl
    /\ Created(id)
    /\ ~socket_invalid(sock, id)
    /\ UNCHANGED pipe
    /\ CtrlReturns("pause", [sock EXCEPT !.reading = FALSE], "none", id)

\* 'K': close_socket
CmdClose(id, shutdown) ==
    /\ ~sabort /\ checkctrl
    /\ Created(id)
    /\ ~socket_invalid(sock, id)
    /\ UNCHANGED pipe
    /\ LET shutdown_read == sock.type = "HALFCLOSE_READ"
           op == IF shutdown THEN "shutdown" ELSE "close"
       IN IF shutdown \/ nomore_sending_data(sock)
          THEN CtrlReturns(op, force_close(sock), IF shutdown_read THEN "none" ELSE "CLOSE", id)
          ELSE IF ~shutdown_read
          THEN CtrlReturns(op, close_read([sock EXCEPT !.closing = TRUE]), "CLOSE", id)
          ELSE CtrlReturns(op, [sock EXCEPT !.closing = TRUE], "none", id)

\* 'W': trigger_write
CmdTriggerWrite(id) ==
    /\ ~sabort /\ checkctrl
    /\ pipe.w[id]
    /\ pipe' = [pipe EXCEPT !.w[id] = FALSE]
    /\ IF socket_invalid(sock, id)
       THEN CtrlReturns("trigger", sock, "none", id)
       ELSE CtrlReturns("trigger", [sock EXCEPT !.writing = TRUE], "none", id)

\* 'D' and 'P': send_socket, then dec_sending_ref
CmdSend(id, low) ==
    /\ ~sabort /\ checkctrl
    /\ pipe.d[id] > 0
    /\ pipe' = [pipe EXCEPT !.d[id] = @ - 1]
    /\ LET s == IF sock.type \in {"INVALID", "HALFCLOSE_WRITE", "PACCEPT", "PLISTEN", "LISTEN"}
                   \/ sock.id # id \/ sock.closing
                THEN sock
                ELSE IF send_buffer_empty(sock)
                THEN [sock EXCEPT !.high = 1, !.writing = TRUE]
                ELSE IF low THEN [sock EXCEPT !.low = @ + 1]
                ELSE [sock EXCEPT !.high = @ + 1]
       IN CtrlReturns("send", IF s.id = id /\ s.sending > 0
                              THEN [s EXCEPT !.sending = @ - 1] ELSE s, "none", id)

\* socket_server_poll finds no command: the events of the batch are next
NoCmd ==
    /\ ~sabort /\ checkctrl
    /\ checkctrl' = FALSE
    /\ UNCHANGED << sock, alloc_id, ev, pipe, nopen, nclose, late, last, sabort, notsocket >>

\* sp_wait: the event reported for the slot has the flags the socket is
\* registered for
Wait(e) ==
    /\ ~sabort /\ ~checkctrl
    /\ ev = NoEv
    /\ checkctrl' = TRUE
    /\ \/ e = NoEv
       \/ /\ sock.type \notin {"INVALID", "RESERVE"}
          /\ e.read \/ e.write \/ e.error \/ e.eof
          /\ e.read => sock.reading
          /\ e.write => sock.writing
    /\ ev' = e
    /\ UNCHANGED << sock, alloc_id, pipe, nopen, nclose, late, last, sabort, notsocket >>

\* report_accept for a listening socket of another slot: the accepted
\* connection gets a fresh id in this slot
Accept ==
    /\ ~sabort /\ ~checkctrl
    /\ sock.type = "INVALID"
    /\ alloc_id < NIds
    /\ alloc_id' = alloc_id + 1
    /\ sock' = new_fd(sock, alloc_id + 1, "PACCEPT", FALSE)
    /\ last' = [op |-> "accept", ret |-> "ACCEPT", id |-> 0, turn |-> 1 - last.turn]
    /\ UNCHANGED << checkctrl, ev, pipe, nopen, nclose, late, sabort, notsocket >>

\* the end of an event: the slot becomes s, poll returns ret, the event is
\* done or stays with the flags e
EventReturns(op, s, ret, e) ==
    /\ sock' = s
    /\ ev' = e
    /\ PollReturns(op, ret, sock.id)
    /\ UNCHANGED << alloc_id, checkctrl, pipe, sabort, notsocket >>

\* mutant: the socket stays SOCKET_TYPE_CONNECTING
report_connect_StaysConnecting(ok) ==
    IF ~ok THEN EventReturns("connect", force_close(sock), "ERR", NoEv)
    ELSE EventReturns("connect", sock, "OPEN", NoEv)

\* report_connect
report_connect(ok) ==
    IF ~ok THEN EventReturns("connect", force_close(sock), "ERR", NoEv)
    ELSE LET s == [sock EXCEPT !.type = "CONNECTED"]
         IN EventReturns("connect",
                         IF nomore_sending_data(s) THEN [s EXCEPT !.writing = FALSE] ELSE s,
                         "OPEN", NoEv)

\* socket_server_poll takes the event of the batch: r, w1 and w2 are what
\* read() and write() do, ok what getsockopt reports for a connecting socket
Event ==
    /\ ~sabort /\ ~checkctrl
    /\ ev # NoEv
    /\ IF sock.type \in {"INVALID", "LISTEN"}
       THEN EventReturns("skip", sock, "none", NoEv)
       ELSE IF sock.type = "CONNECTING" THEN \E ok \in BOOLEAN : report_connect(ok)
       ELSE IF ev.read
       THEN \E r \in ReadOutcomes :
               LET f == forward_message_tcp(sock, r)
               IN EventReturns("read", f.s, f.ret,
                               IF f.ret = "MORE" THEN ev
                               ELSE IF ev.write /\ f.ret \notin {"CLOSE", "ERR"}
                               THEN [ev EXCEPT !.read = FALSE]
                               ELSE NoEv)
       ELSE IF ev.write
       THEN \/ \E w1, w2 \in WriteOutcomes :
                  LET f == send_buffer(sock, w1, w2)
                  IN EventReturns("write", f.s, f.ret, NoEv)
            \* socket_trylock fails while a direct write of socket_server_send
            \* holds the lock: send_buffer returns at once
            \/ /\ nomore_sending_data(sock) /\ sock.type = "CONNECTED"
               /\ EventReturns("blocked", sock, "none", NoEv)
       ELSE IF ev.error THEN EventReturns("error", sock, "ERR", NoEv)
       ELSE IF sock.type = "RESERVE"
       THEN /\ sabort' = TRUE
            /\ UNCHANGED << sock, alloc_id, checkctrl, ev, pipe, nopen, nclose, late, last, notsocket >>
       ELSE EventReturns("eof", force_close(sock),
                         IF sock.type = "HALFCLOSE_READ" THEN "none" ELSE "CLOSE", NoEv)

NextSocket ==
    \/ ReserveId
    \/ \E id \in Ids, low, direct \in BOOLEAN : ServerSend(id, low, direct)
    \/ \E id \in Ids, ok \in BOOLEAN : CmdListen(id, ok)
    \/ \E id \in Ids, how \in {"fail", "done", "wait"} : CmdOpen(id, how)
    \/ \E id \in Ids : CmdBind(id)
    \/ \E id \in Ids : CmdResume(id)
    \/ \E id \in Ids : CmdPause(id)
    \/ \E id \in Ids, shutdown \in BOOLEAN : CmdClose(id, shutdown)
    \/ \E id \in Ids : CmdTriggerWrite(id)
    \/ \E id \in Ids, low \in BOOLEAN : CmdSend(id, low)
    \/ NoCmd
    \/ \E e \in [read : BOOLEAN, write : BOOLEAN, error : BOOLEAN, eof : BOOLEAN] : Wait(e)
    \/ Accept
    \/ Event

SpecSocket == Init /\ [][NextSocket]_vars

\* ------------------------------------------------------------ properties
\* thread t is inside the message handler of service c
InHandler(t, c) == pc[t] = "handler" /\ hc[t] = c

\* how often mailbox c is linked into the global run queue
InGlobalCount(c) == Cardinality({i \in 1..Len(Q) : Q[i] = c})

\* thread t holds a reference that skynet_handle_grab gave it (or, in
\* skynet_handle_retire, the reference the registry held)
HoldsRef(t, c) ==
    /\ hc[t] = c
    /\ pc[t] \in {"d_pop", "d_len", "d_cb", "handler", "d_end", "d_requeue",
                  "release", "drop_push", "drop_release", "s_push"}

\* thread t owns mailbox c outside the global queue: a worker between the
\* global pop and the requeue, or skynet_context_new before its enqueue
OwnsQueue(t, c) == (hq[t] = c \/ hnq[t] = c) /\ pc[t] # "idle"

\* C1: for every service at most one thread is inside its message handler
C1_OneHandler ==
    \A c \in Ctxs : Cardinality({t \in Threads : InHandler(t, c)}) <= 1

\* two workers run handlers at the same time, for different services
C1_Witness ==
    \E t1, t2 \in Threads : \E c1, c2 \in Ctxs :
        t1 # t2 /\ c1 # c2 /\ InHandler(t1, c1) /\ InHandler(t2, c2)

\* C4: every mailbox is linked into the global run queue at most once
C4_QueuedOnce == \A c \in Ctxs : InGlobalCount(c) <= 1

\* a mailbox that skynet_mq_mark_release linked sits in the global queue
\* behind another mailbox
C4_Witness ==
    \E c \in Ctxs : /\ InGlobalCount(c) = 1
                     /\ mq[c].release = 1
                     /\ mq[c].in_global = 0
                     /\ Len(Q) = 2

\* C5 as stated: a mailbox is on the global run queue iff in_global is set
C5_Original ==
    \A c \in Ctxs : mq[c].live => (InGlobalCount(c) >= 1 <=> mq[c].in_global = MQ_IN_GLOBAL)

\* C5 amended: a mailbox on the global run queue has in_global set or is
\* marked for release; a mailbox with in_global set is on the global run
\* queue or is owned by a thread (being created, or held by a worker)
C5_Amended ==
    \A c \in Ctxs :
        mq[c].live =>
            /\ InGlobalCount(c) >= 1 => (mq[c].in_global = MQ_IN_GLOBAL \/ mq[c].release = 1)
            /\ mq[c].in_global = MQ_IN_GLOBAL =>
                   (InGlobalCount(c) >= 1 \/ \E t \in Threads : OwnsQueue(t, c))

\* a worker is inside a handler: its mailbox has in_global set and is not on
\* the global queue
C5_Witness ==
    \E t \in Threads : \E c \in Ctxs :
        InHandler(t, c) /\ mq[c].in_global = MQ_IN_GLOBAL /\ InGlobalCount(c) = 0

\* C6: the reference count never goes below 0, delete_context runs at most
\* once per service, and it has run (or is running, in exactly one thread)
\* exactly when the count of a created service is 0
C6_DeleteOnce ==
    \A c \in Ctxs :
        /\ ref[c] >= 0
        /\ deleted[c] <= 1
        /\ deleted[c] = 1 => ~alive[c]
        /\ c <= ncreated =>
              (ref[c] = 0 <=>
                  (deleted[c] + Cardinality({t \in Threads :
                        pc[t] \in {"delete", "drop_delete"} /\ hc[t] = c}) = 1))

\* both services were destroyed
C6_Witness == \A c \in Ctxs : deleted[c] = 1 /\ ref[c] = 0

\* C7: a registered handle's service has a reference count >= 1, and a
\* service somebody holds a reference to has not been destroyed
C7_GrabKeepsAlive ==
    \A c \in Ctxs :
        /\ slot[c] => (ref[c] >= 1 /\ alive[c])
        /\ (\E t \in Threads : HoldsRef(t, c)) => (alive[c] /\ ref[c] >= 1)

\* a worker is inside the handler of a service whose handle was retired
C7_Witness ==
    \E t \in Threads : \E c \in Ctxs : InHandler(t, c) /\ ~slot[c] /\ ref[c] = 1

\* where message id was addressed to, and who sent it: the PTYPE_ERROR
\* message for user message u goes from u's destination to u's source
DestOf(id) == IF id \in UserIds THEN dest[id] ELSE SrcOf(id - MaxMsg)
SourceOf(id) == IF id \in UserIds THEN SrcOf(id) ELSE dest[id - MaxMsg]

\* the copies of message id that sit in mailboxes, and in threads' hands
MailboxCopies(id) ==
    Cardinality({ci \in Ctxs \X (1..(4 * DEFAULT_QUEUE_SIZE)) :
                    /\ ci[2] <= Len(mq[ci[1]].queue)
                    /\ mq[ci[1]].queue[ci[2]].id = id})
HandCopies(id) == Cardinality({t \in Threads : hm[t].id = id})

\* C3 as stated: no message that skynet_send accepted for a service is
\* discarded without being handled or answered by a PTYPE_ERROR
C3_Original ==
    \A id \in UserIds : dest[id] # 0 => fate[id] \notin {"discarded", "errlost"}

\* C3 amended: a message that skynet_send accepted stays in the mailbox of
\* its destination (once) until it meets one of four ends: it is passed to
\* the handler; it is freed without notice because the destination has no
\* callback; it is dropped and a PTYPE_ERROR message is enqueued for its
\* source; it is dropped and the PTYPE_ERROR send fails because the source
\* is not registered
C3_Amended ==
    \A id \in MsgIds :
        /\ fate[id] = "queued" =>
              /\ MailboxCopies(id) + HandCopies(id) = 1
              /\ \A c \in Ctxs : (\E i \in 1..Len(mq[c].queue) : mq[c].queue[i].id = id)
                                      => c = DestOf(id)
        /\ fate[id] # "queued" => MailboxCopies(id) = 0
        /\ fate[id] = "handled" => cb[DestOf(id)]
        /\ fate[id] = "discarded" => ~cb[DestOf(id)]
        /\ (fate[id] = "errsent" /\ id \in UserIds) =>
              fate[ErrId(id)] \in {"queued", "handled", "discarded", "errsent", "errlost"}
        /\ fate[id] = "errlost" =>
              /\ ~handle_found(SourceOf(id))
              /\ id \in UserIds => fate[ErrId(id)] = "rejected"

\* a message was dropped and its source handled the PTYPE_ERROR message
C3_Witness ==
    \E id \in UserIds : fate[id] = "errsent" /\ fate[ErrId(id)] = "handled"

\* every thread is idle and the global queue is empty: nothing is under way
Quiescent == Q = << >> /\ \A t \in Threads : pc[t] = "idle"

SendReturns(id) == fate[id] = "unsent" /\ fate'[id] # "unsent"

RingOrder ==
    rpopped \o [i \in 1..Len(mq_contents(ring)) |-> mq_contents(ring)[i].id]

\* C2: messages leave a mailbox in exactly the order they were pushed,
\* across ring wrap-around and across expand_queue: the messages popped so
\* far, followed by the messages still queued, are the messages pushed, in
\* push order.
C2_Fifo == RingOrder = [i \in 1..rpushed |-> i]

\* every message was popped after the tail wrapped and the ring grew while
\* its head was not at slot 0
C2_Witness ==
    /\ {"wrap", "grow_wrapped"} \subseteq rhist
    /\ ring.cap > DEFAULT_QUEUE_SIZE
    /\ Len(rpopped) = rpushed
    /\ rpushed >= 3

\* timer id is pushed in this step
TimerFires(id) == tstate[id] = "pending" /\ tstate'[id] = "done"

\* C8: a timer registered with delay d > 0 at tick T is pushed only at a
\* tick T' >= T + d, also after being moved down through the levels.
C8_NeverEarly ==
    [][\A id \in TimerIds : TimerFires(id) => ticks' >= due[id]]_vars

\* a timer that was linked into a level above the first one (its delay is
\* at least TIME_NEAR * TIME_LEVEL) has fired
C8_Witness ==
    \E id \in TimerIds : tstate[id] = "done" /\ delay[id] >= TIME_NEAR * TIME_LEVEL

\* C9: of two timers pending together, the one with the earlier expiry
\* tick is pushed first: when a timer is pushed no pending timer expires
\* earlier than it.
C9_EarlierFirst ==
    [][\A b \in TimerIds : TimerFires(b) =>
          \A a \in TimerIds : tstate[a] = "pending" => due[a] >= due[b]]_vars

\* TIMEOUT 10 then TIMEOUT 5: the delay-5 timer has been pushed, the
\* delay-10 timer registered before it is still pending
C9_Witness ==
    \E a, b \in TimerIds :
        /\ delay[a] = 10 /\ delay[b] = 5
        /\ regno[a] < regno[b]
        /\ tstate[a] = "pending"
        /\ tstate[b] = "done"
        /\ tpushed = << b >>

Retired(h) == h \in Ctxs /\ h <= ncreated /\ ~slot[h]

\* C11 as stated: a skynet_send addressed to a retired handle returns
\* success and the message is enqueued
C11_Original ==
    [][\A id \in UserIds :
          (SendReturns(id) /\ Retired(dest'[id])) => fate'[id] = "queued"]_vars

\* C11 amended: a skynet_send addressed to a retired handle returns -1 and
\* enqueues nothing; only a send that resolved the handle before the retire
\* lands in the mailbox, and such a message is handled by the worker that
\* already holds the service or dropped by the drop policy: once nothing is
\* under way no message is left queued for a retired service
C11_Amended ==
    /\ [](\A id \in MsgIds :
            (Quiescent /\ Retired(DestOf(id))) => fate[id] # "queued")
    /\ [][\A id \in UserIds :
            (SendReturns(id) /\ Retired(dest'[id])) =>
                (fate'[id] = "rejected" /\ mq' = mq /\ Q' = Q /\ ref' = ref)]_vars

\* one message reached the mailbox of a service that was then retired and
\* was dropped, a later send to the same handle was refused
C11_Witness ==
    \E i, j \in UserIds :
        /\ i # j /\ dest[i] = dest[j] /\ Retired(dest[i])
        /\ fate[i] \in {"errsent", "errlost"}
        /\ fate[j] = "rejected"

\* the messages with id id that exist in mailboxes and in threads' hands
Copies(id) ==
    {m \in UNION {{mq[c].queue[i] : i \in 1..Len(mq[c].queue)} : c \in Ctxs}
            \cup {hm[t] : t \in Threads} : m.id = id}

\* C12 as stated: every message dropped by the drop policy has one
\* PTYPE_ERROR message sent to its source
C12_Original == \A id \in MsgIds : fate[id] # "errlost"

\* C12 amended: a message is dropped only from the mailbox of a service
\* that was destroyed or whose init failed; for each dropped message one
\* PTYPE_ERROR message carrying its session and the dropped service as
\* source is enqueued for its source when the source is still registered,
\* and none when it is not; the drained mailbox is freed and is not on the
\* global queue afterwards
C12_Amended ==
    /\ \A id \in MsgIds :
          fate[id] \in {"errsent", "errlost"} =>
              (mq[DestOf(id)].release = 1 \/ ~mq[DestOf(id)].live)
    /\ \A id \in UserIds :
          /\ fate[id] = "errsent" =>
                /\ fate[ErrId(id)] \notin {"unsent", "rejected"}
                /\ MailboxCopies(ErrId(id)) + HandCopies(ErrId(id)) <= 1
                /\ \A m \in Copies(ErrId(id)) :
                      m.session = id /\ m.type = PTYPE_ERROR /\ m.source = dest[id]
                /\ \A c \in Ctxs :
                      (\E i \in 1..Len(mq[c].queue) : mq[c].queue[i].id = ErrId(id))
                          => c = SrcOf(id)
          /\ fate[id] = "errlost" =>
                (~slot[SrcOf(id)] /\ fate[ErrId(id)] = "rejected" /\ Copies(ErrId(id)) = {})
          /\ fate[ErrId(id)] # "unsent" => fate[id] \in {"errsent", "errlost"}
    /\ \A c \in Ctxs : ~mq[c].live => InGlobalCount(c) = 0

\* the init of a service failed, a message in its mailbox was dropped, the
\* mailbox was freed and the source handled the PTYPE_ERROR message
C12_Witness ==
    \E id \in UserIds :
        /\ fate[id] = "errsent"
        /\ ~init[dest[id]]
        /\ ~mq[dest[id]].live
        /\ fate[ErrId(id)] = "handled"

\* C13: skynet_send returns the message-too-large status -2, with nothing
\* handed on and no session allocated, exactly when the payload size
\* exceeds SIZE_MAX >> 8.
C13_TooLarge ==
    zpc = "done" =>
        /\ (zret = -2) <=> (zsz > SIZE_MAX \div 256)
        /\ zret = -2 => (zwhere = "none" /\ zpacked = -1 /\ zsid \in {0, 41})

\* the smallest size that is too large, sent with PTYPE_TAG_ALLOCSESSION to
\* a live local service, was refused
C13_Witness ==
    /\ zpc = "done"
    /\ zsz = SIZE_MAX \div 256 + 1
    /\ BitAnd(ztype, PTYPE_TAG_ALLOCSESSION) # 0
    /\ zdst = "local"
    /\ zret = -2

\* the name array is strictly sorted up to name_count
NamesSorted ==
    \A i, j \in 0..(H.name_count - 1) : i < j => H.name[i].name < H.name[j].name

\* C14: after skynet_handle_namehandle(h, n) succeeded,
\* skynet_handle_findname(n) returns h, whatever names are bound and
\* whatever other handles are retired afterwards; the name array stays
\* sorted.
C14_FindBound ==
    /\ NamesSorted
    /\ \A n \in Names : skynet_handle_findname(H, n) = nbound[n]

\* every name is bound, the array has grown, the first context was retired
\* and a later one, still registered, has a name
C14_Witness ==
    /\ H.name_count = NNames
    /\ H.name_cap > 2
    /\ xst[1] = "free" /\ nreg >= 2
    /\ \E c \in Objs : xst[c] = "live" /\ \E n \in Names : nbound[n] = xhandle[c]

\* the contexts that are registered: skynet_handle_register returned a
\* handle for them and no skynet_handle_retire removed them
Registered == {c \in Objs : xst[c] \in {"window", "live"}}

\* C15 as stated: no registered service has a handle whose low bits are 0,
\* and no two registered services have the same handle
C15_Original ==
    \A c \in Registered :
        /\ BitAnd(xret[c], HANDLE_MASK) # 0
        /\ \A d \in Registered : d # c => xret[d] # xret[c]

\* C16 as stated: no two services that are registered or still referenced
\* have the same handle
C16_Original ==
    \A c, d \in Objs :
        (c # d /\ xst[c] # "free" /\ xst[d] # "free") => xret[c] # xret[d]

\* C27 as stated: skynet_handle_retire(h) of a registered handle succeeds:
\* its lookup finds every service whose context holds the handle it was
\* registered under
C27_Original ==
    \A c \in Objs : xst[c] = "live" => handle_lookup(H, xhandle, xret[c]) = c

\* C28 as stated: every registered service is stored at the slot its handle
\* selects, and the assert of the rehash never fails
C28_Original ==
    /\ ~habort
    /\ \A c \in Registered : H.slot[BitAnd(xret[c], H.slot_size - 1)] = c

\* C17: for every socket id, SOCKET_CLOSE is returned at most once.
C17_CloseOnce == \A id \in Ids : nclose[id] <= 1

\* a socket was closed by the peer, then by a 'K' request that returned
\* nothing, and SOCKET_CLOSE was returned for it once
C17_Witness ==
    \E id \in Ids :
        /\ nclose[id] = 1
        /\ last.id = id /\ last.op \in {"close", "shutdown"} /\ last.ret = "none"
        /\ sock.id = id /\ sock.type = "INVALID"

\* C18 as stated: for every socket id, SOCKET_OPEN is returned at most once.
C18_Original == \A id \in Ids : nopen[id] <= 1

\* C18, amended: the request that creates a socket ('L', 'O', 'B') or the
\* completion of its connect returns SOCKET_OPEN at most once per id; every
\* further SOCKET_OPEN for the id is returned by a resume request ('R') that
\* finds the socket PAccept, PListen or Connected, and none is returned
\* after SOCKET_CLOSE.
C18_Amended ==
    [][\A id \in Ids :
          nopen'[id] # nopen[id] =>
              /\ nclose[id] = 0
              /\ \/ last'.op = "resume" /\ sock.type \in {"PACCEPT", "PLISTEN", "CONNECTED"}
                 \/ last'.op \in {"listen", "open", "bind", "connect"} /\ nopen[id] = 0]_vars

\* a listening socket for which 'L' and then 'R' returned SOCKET_OPEN
C18_Witness ==
    \E id \in Ids :
        /\ nopen[id] = 2
        /\ sock.id = id /\ sock.type = "LISTEN"
        /\ last.op = "resume" /\ last.ret = "OPEN"

\* C19: once SOCKET_CLOSE was returned for a socket id, no SOCKET_DATA is
\* returned for it.
C19_NoDataAfterClose == \A id \in Ids : ~late[id]

\* SOCKET_CLOSE was returned, the read half is closed, and a read event for
\* the socket was taken with nothing returned
C19_Witness ==
    \E id \in Ids :
        /\ nclose[id] = 1
        /\ sock.id = id /\ sock.type = "HALFCLOSE_READ"
        /\ last.op = "read" /\ last.ret = "none" /\ last.id = id

\* the send data a socket still holds
Pending(s) == ~send_buffer_empty(s) \/ s.dw

\* C20: a 'K' request with shutdown=false for a connected socket with
\* pending send data stops reading, returns SOCKET_CLOSE and leaves the
\* socket HalfCloseRead; while writes go on and data is left the socket
\* stays HalfCloseRead; the write that empties both lists force-closes it;
\* a 'K' with shutdown=true force-closes at once and drops the data.
C20_GracefulClose ==
    [][/\ (last'.op = "close" /\ last' # last /\ sock.type = "CONNECTED" /\ Pending(sock)
            /\ sock.id = last'.id) =>
               /\ sock'.type = "HALFCLOSE_READ" /\ ~sock'.reading /\ sock'.closing
               /\ last'.ret = "CLOSE"
               /\ sock'.high = sock.high /\ sock'.low = sock.low
       /\ (last'.op = "write" /\ last' # last /\ sock.closing /\ sock.type = "HALFCLOSE_READ"
            /\ Pending(sock)) =>
               \/ sock'.type = "HALFCLOSE_READ" /\ Pending(sock')
               \/ sock'.type = "INVALID" /\ ~Pending(sock')
       /\ (last'.op = "shutdown" /\ last' # last /\ sock.id = last'.id) =>
               sock'.type = "INVALID" /\ ~Pending(sock')]_vars

\* a closing socket was force-closed by the write that emptied its lists
C20_Witness ==
    \E id \in Ids :
        /\ sock.id = id /\ sock.type = "INVALID"
        /\ last.op = "write" /\ last.id = id
        /\ nclose[id] = 1

\* C21: once the count of live services is 0, every worker thread
\* eventually leaves its loop, whether it is asleep on the condition
\* variable or between finding the global queue empty and going to sleep.
C21_WorkersExit == (total = 0) ~> (\A w \in Threads : wpc[w] = "exit")

\* quit was set while one worker slept on the condition variable and another
\* had found the queue empty and was about to take the mutex
C21_Witness ==
    /\ quit /\ total = 0
    /\ \E w, v \in Threads : wpc[w] = "woken" /\ wpc[v] = "lock"

\* ----------------------------------------------------------------- batches
\* the worker is dispatching mailbox b
Dispatching(b) == \E t \in Threads : bq[t] = b /\ bpc[t] \in {"pop", "len", "handle"}

\* a call of the dispatcher ends: the batch loop is left
BatchDone(t) == bpc[t] \in {"pop", "handle"} /\ bpc'[t] \in {"end", "retpop"}

\* C22: every mailbox that waits in the global queue is eventually
\* dispatched, however busy the other mailboxes are kept
C22_NoMonopoly ==
    \A b \in 1..NBox : (\E j \in 1..Len(bG) : bG[j] = b) ~> Dispatching(b)

\* a batch has ended on a mailbox that still holds messages while another
\* mailbox waits in the global queue
C22_Witness ==
    \E t \in Threads :
        /\ bpc[t] = "end"
        /\ bi[t] >= 1
        /\ bmq[bq[t]] >= 1
        /\ bG # << >>

\* C23: a worker of weight k >= 0 that starts a batch on a mailbox of L
\* messages handles L >> k messages in that batch
C23_Original ==
    [][\A t \in Threads :
          (Weight(t) >= 0 /\ BatchDone(t)) => bi'[t] = bL[t] \div Pow2(Weight(t))]_vars

\* C24: a worker of weight -1 handles exactly one message in a call on a
\* mailbox that is not empty, and the call then ends
C24_OneMessage ==
    [][\A t \in Threads :
          (Weight(t) = -1 /\ BatchDone(t) /\ bL[t] > 0)
              => bi'[t] = 1 /\ bpc'[t] = "end"]_vars

\* the weight -1 worker ended a call after one message of a mailbox that
\* was full
C24_Witness ==
    \E t \in Threads :
        Weight(t) = -1 /\ bpc[t] = "end" /\ bL[t] = MaxLen /\ bi[t] = 1

\* ----------------------------------------------------------------- monitor
\* C25: a handler that is still running at the second monitor check after
\* it began has had its service marked endless
C25_Original == (hpc = "handler" /\ checks >= 2) => marked

\* C25 as the code has it: the mark is made when the service is still
\* registered at that check (skynet_context_endless grabs the handle)
C25_Amended == (hpc = "handler" /\ checks >= 2 /\ registered[hsvc]) => marked

\* the second check after the handler began has marked a registered service
C25_Witness ==
    hpc = "handler" /\ checks = 2 /\ registered[hsvc] /\ marked /\ endless[hsvc]

\* C26: a mark is answered by one "1" of STAT endless: while a mark is not
\* yet answered the flag stays set, also when the monitor marks between the
\* test and the clear of cmd_stat
C26_Original == \A s \in 1..NSvc : unseen[s] => endless[s]

\* a live socket is monitored for write-readiness with both send lists empty
WriteOnEmpty(s) ==
    s.type \notin {"INVALID", "RESERVE"} /\ send_buffer_empty(s) /\ s.writing

\* C29 as stated: between two steps of the I/O thread no live socket with
\* two empty send lists has write monitoring enabled
C29_Original == ~WriteOnEmpty(sock)

\* C29 as the code has it: write monitoring comes on over empty lists only
\* in open_socket (the socket is Connecting) and in trigger_write ('W'), and
\* every flush of a write event that leaves both lists empty turns it off
C29_Amended ==
    [][/\ (WriteOnEmpty(sock') /\ ~WriteOnEmpty(sock))
            => (last' # last /\ last'.op \in {"open", "trigger"})
       /\ (last' # last /\ last'.op = "write") => ~WriteOnEmpty(sock')]_vars

\* a write event has flushed the last buffer of a connected socket and
\* turned write monitoring off
C29_Witness ==
    /\ last.op = "write"
    /\ sock.type = "CONNECTED"
    /\ send_buffer_empty(sock)
    /\ ~sock.dw
    /\ ~sock.writing

\* C30: a buffer that is partly sent is finished before bytes of any other
\* buffer are written, and between two steps of the I/O thread the head of
\* the low list is never partly sent
C30_LowAtomic == ~sock.torn /\ ~sock.lpart

\* a low-priority buffer was partly sent and raised to the high list, and
\* another buffer is queued behind it
C30_Witness == sock.hpart = "low" /\ sock.high = 2 /\ ~sock.torn

\* -------------------------------------------------------------- reserve_id
\* C31: no slot has two ids handed out at a time, an id that was handed out
\* owns a Reserved slot, and a call during which no slot was ever Invalid
\* returns -1
C31_FreshId ==
    /\ \A h \in 0..(MAX_SOCKET - 1) :
          /\ inuse[h] <= 1
          /\ inuse[h] = 1 => ss_slot[h].type = "RESERVE" /\ HASH_ID(ss_slot[h].id) = h
    /\ \A t \in Threads :
          (vret[t] # -2 /\ ~vfree[t]) => vret[t] = -1

\* every slot is taken, one of them by the id 0 that follows the wrap of
\* alloc_id, and a call that found no Invalid slot has returned -1
C31_Witness ==
    /\ \A h \in 0..(MAX_SOCKET - 1) : inuse[h] = 1
    /\ ss_slot[0].id = 0
    /\ \E t, u \in Threads :
          /\ t # u
          /\ vret[t] = -1 /\ ~vfree[t]
          /\ vret[u] >= 0

\* ------------------------------------------------------------- timer wheel
\* timer id is linked in near slot i, in slot i of level l
InNear(T, id, i) == \E n \in 1..Len(T.near[i]) : T.near[i][n].session = id
InLevel(T, id, l, i) == \E n \in 1..Len(T.t[l][i]) : T.t[l][i][n].session = id

\* skynet_timeout links timer id into the wheel
TimerAdded(id) == tstate[id] = "free" /\ tstate'[id] = "pending"

\* the smallest L >= from with d < 2^(TIME_NEAR_SHIFT + L * TIME_LEVEL_SHIFT)
RECURSIVE LevelByDelay(_, _)
LevelByDelay(d, L) ==
    IF L >= 4 \/ d < Pow2(TIME_NEAR_SHIFT + L * TIME_LEVEL_SHIFT) THEN L
    ELSE LevelByDelay(d, L + 1)

\* the smallest L >= from for which e and c agree above the low
\* TIME_NEAR_SHIFT + L * TIME_LEVEL_SHIFT bits, 4 when there is none
RECURSIVE LevelByBlock(_, _, _)
LevelByBlock(e, c, L) ==
    IF L >= 4 \/ e \div Pow2(TIME_NEAR_SHIFT + L * TIME_LEVEL_SHIFT)
                 = c \div Pow2(TIME_NEAR_SHIFT + L * TIME_LEVEL_SHIFT) THEN L
    ELSE LevelByBlock(e, c, L + 1)

\* the slot of level L (1..4) for expiry e
LevelSlot(e, L) == (e \div Pow2(TIME_NEAR_SHIFT + (L - 1) * TIME_LEVEL_SHIFT)) % TIME_LEVEL

\* C32 as stated: with d = e - c, d < TIME_NEAR puts the node in near slot
\* e mod TIME_NEAR, otherwise it goes to the smallest level L with
\* d < 2^(TIME_NEAR_SHIFT + L * TIME_LEVEL_SHIFT)
C32_Original ==
    [][\A id \in TimerIds : TimerAdded(id) =>
          LET c == TI.time
              d == delay'[id]
              e == (c + d) % TIME_WRAP
          IN IF d < TIME_NEAR THEN InNear(TI', id, e % TIME_NEAR)
             ELSE InLevel(TI', id, LevelByDelay(d, 1) - 1, LevelSlot(e, LevelByDelay(d, 1)))]_vars

\* C32 as the code has it: the node goes to the near wheel when e and c lie
\* in the same block of TIME_NEAR ticks, otherwise to the smallest level L
\* whose block holds both e and c
C32_Amended ==
    [][\A id \in TimerIds : TimerAdded(id) =>
          LET c == TI.time
              e == (c + delay'[id]) % TIME_WRAP
          IN IF e \div TIME_NEAR = c \div TIME_NEAR THEN InNear(TI', id, e % TIME_NEAR)
             ELSE InLevel(TI', id, LevelByBlock(e, c, 1) - 1, LevelSlot(e, LevelByBlock(e, c, 1)))]_vars

\* a pending timer whose delay is less than TIME_NEAR sits in the first
\* level, and one with a larger delay in the near wheel
C32_Witness ==
    \E a, b \in TimerIds :
        /\ tstate[a] = "pending" /\ delay[a] < TIME_NEAR
        /\ \E i \in 0..(TIME_LEVEL - 1) : InLevel(TI, a, 0, i)
        /\ tstate[b] = "pending" /\ delay[b] >= TIME_NEAR * TIME_LEVEL
        /\ \E i \in 0..(TIME_LEVEL - 1), l \in 1..3 : InLevel(TI, b, l, i)

\* C38: a timer fires in the update that advances the tick to its expiry:
\* it is pushed at that tick, and when timer_update is over no pending timer
\* has an expiry at or before the current tick
C38_OnTime ==
    [][/\ \A id \in TimerIds : TimerFires(id) => ticks' = due[id]
       /\ tpc' = "idle" =>
             \A id \in TimerIds : tstate'[id] = "pending" => due'[id] > ticks']_vars

\* a timer that was linked above the first level has fired after the tick
\* passed the span of the second level, and timer_update is over
C38_Witness ==
    \E a \in TimerIds :
        /\ tstate[a] = "done" /\ delay[a] >= TIME_NEAR * TIME_LEVEL
        /\ tpc = "idle"
        /\ ticks >= TIME_NEAR * TIME_LEVEL * TIME_LEVEL

\* ------------------------------------------------------- mailbox capacity
\* C33: the capacity doubles in exactly the pushes that make cap messages
\* pending (head == tail after the tail advanced) and in no other step, and
\* after every push the pending messages are one more than before and
\* fewer than the capacity
C33_GrowWhenFull ==
    [][IF rpushed' = rpushed + 1
       THEN /\ ring'.cap = IF skynet_mq_length(ring) + 1 = ring.cap
                           THEN 2 * ring.cap ELSE ring.cap
            /\ skynet_mq_length(ring') = skynet_mq_length(ring) + 1
            /\ skynet_mq_length(ring') < ring'.cap
       ELSE ring'.cap = ring.cap]_vars

\* the mailbox created with DEFAULT_QUEUE_SIZE slots has grown to twice
\* that in the push that made DEFAULT_QUEUE_SIZE messages pending
C33_Witness ==
    /\ ring.cap = 2 * DEFAULT_QUEUE_SIZE
    /\ rpushed = DEFAULT_QUEUE_SIZE
    /\ skynet_mq_length(ring) = DEFAULT_QUEUE_SIZE

C36_Original ==
    (lastmark.svc # 0 /\ lastmark.incs < VersionWrap) => lastmark.held

\* ------------------------------------------------------- queue spinlocks
\* thread t waits for a lock another thread (or itself) holds
LockBlocked(t) ==
    \/ lpc[t] \in {"lockq", "droplock"} /\ qlock[lq[t]] # 0
    \/ lpc[t] = "lockg" /\ glock # 0

\* C39: a thread that holds the lock of the global queue never takes or
\* waits for the lock of a mailbox, a thread holding both took the mailbox
\* lock first, skynet_globalmq_pop holds no mailbox lock, no thread holds
\* two mailbox locks; and whenever some thread is inside an operation, some
\* thread inside an operation is not waiting for a lock (no deadlock)
C39_LockOrder ==
    /\ \A t \in Lockers :
          /\ glock = t => lpc[t] \notin {"lockq", "droplock"}
          /\ (glock = t /\ HoldsMailbox(t)) => lfirst[t] = "mailbox"
          /\ (glock = t /\ HoldsMailbox(t)) =>
                lop[t] \in {"skynet_mq_push", "skynet_mq_mark_release", "skynet_mq_release"}
          /\ lop[t] = "skynet_globalmq_pop" => ~HoldsMailbox(t)
          /\ \A p, q \in LockBoxes : (qlock[p] = t /\ qlock[q] = t) => p = q
          /\ lpc[t] = "idle" => (glock # t /\ ~HoldsMailbox(t))
    /\ (\E t \in Lockers : lpc[t] # "idle") =>
          \E t \in Lockers : lpc[t] # "idle" /\ ~LockBlocked(t)

\* one thread holds the lock of mailbox 1 and, inside it, the lock of the
\* global queue (skynet_mq_push), while the other waits for the global lock
\* in skynet_globalmq_pop
C39_Witness ==
    \E t, u \in Lockers :
        /\ lop[t] = "skynet_mq_push"
        /\ qlock[1] = t
        /\ glock = t
        /\ lop[u] = "skynet_globalmq_pop"
        /\ lpc[u] = "lockg"

\* ---------------------------------------------------------- write buffers
\* C40: the wb_size of a live socket is the sum of the bytes not yet written
\* of the buffers in its high and low lists, and the assert of send_buffer_
\* (both lists empty and wb_size 0) has never failed
C40_WbSize ==
    /\ osock.type # "INVALID" => osock.wb_size = SumSz(osock.high) + SumSz(osock.low)
    /\ ~oassert

\* a direct write of two bytes was cut short after one, its rest was put
\* in front of a queued buffer, and a low-priority buffer waits: wb_size 4
C40_Witness ==
    /\ osock.type = "CONNECTED"
    /\ osock.protocol = "TCP"
    /\ Len(osock.high) = 2
    /\ osock.high[1].id = 1
    /\ osock.high[1].off = 1
    /\ osock.low # << >>
    /\ osock.wb_size = 4

RECURSIVE Increasing(_)
\* the bytes of a sequence are in call order, those of a call in position
\* order
Increasing(bytes) ==
    \/ Len(bytes) < 2
    \/ /\ \/ bytes[1][1] < bytes[2][1]
          \/ bytes[1][1] = bytes[2][1] /\ bytes[1][2] < bytes[2][2]
       /\ Increasing(Tail(bytes))

\* C35: on a TCP socket that one thread only has sent to, the bytes of the
\* calls of socket_server_send are written in call order, the bytes of a
\* call in their order
C35_InOrder ==
    (osock.protocol = "TCP" /\ Cardinality(ocallers) <= 1) =>
        Increasing(<< oprev >> \o ostep)

\* one thread's first call was cut short by a direct write of one byte,
\* its second call was queued, and send_buffer wrote the staged rest and
\* then the second buffer
C35_Witness ==
    /\ osock.protocol = "TCP"
    /\ Cardinality(ocallers) = 1
    /\ oprev = << 1, 1 >>
    /\ ostep = << << 1, 2 >>, << 2, 1 >>, << 2, 2 >> >>

\* ------------------------------------------------------------------ wakeup
\* C37: a message that waits in the mailbox of a service is eventually
\* popped by a worker and passed to the handler, whether the workers run,
\* are about to sleep or sleep on the condition variable when it is pushed
C37_Delivered == (mpos > 0) ~> (mpos = 0)

\* a message waits in a mailbox linked in the global queue while every
\* worker sleeps on the condition variable
C37_Witness ==
    /\ mpos > 0
    /\ bG # << >>
    /\ \A t \in Threads : wpc[t] = "wait"

====
